---- MODULE Spec2Model ----
(***************************************************************************)
(* A model of libEMF 1.0.13 (libemf.h): the metafile device context        *)
(* (METAFILEDEVICECONTEXT: handle table, record list, header counters,     *)
(* bounds accumulation) and the metafile records' size bookkeeping         *)
(* (constructors, stream constructors, serialize, size).                   *)
(*                                                                         *)
(* Conventions.  A C++ vector v of length n is the sequence of v[0..n-1];  *)
(* the element v[i] is the sequence's element i+1.  A record is a TLA+     *)
(* record that carries the fields its size and its serialization depend    *)
(* on.  What serialize() writes is modelled by the number of bytes each    *)
(* DATASTREAM operator writes.                                             *)
(***************************************************************************)
EXTENDS Integers, Sequences, FiniteSets, TLC

(***************************************************************************)
(* Bounds of the model.                                                    *)
(***************************************************************************)
\* nextHandle is not called once the handle table has MaxHandles+1 slots.
MaxHandles == 6
\* At most MaxRecords records are appended after the header.
MaxRecords == 3
\* mergePoint is called while at most MaxMerged distinct device points result.
MaxMerged == 2
\* Point counts / character counts of records are 0..MaxCount.
MaxCount == 5
\* A parsed record declares nSize up to its needed size plus MaxSlack.
MaxSlack == 4
\* A poly-polygon has at most MaxPolys polygons of at most MaxPolyCount points.
MaxPolys == 2
MaxPolyCount == 2

(***************************************************************************)
(* Program constants.                                                      *)
(***************************************************************************)
XMAX_PIXELS == 1024
YMAX_PIXELS == 768
XMAX_MM == 320
YMAX_MM == 240

\* Division of C integers truncates toward zero (d > 0 here).
CDiv(n, d) == IF n >= 0 THEN n \div d ELSE -((-n) \div d)

\* floor and ceil of the quotient n/d, d > 0.
Floor(n, d) == n \div d
Ceil(n, d) == -((-n) \div d)

\* ROUND_TO_LONG: round a byte count up to a multiple of four.
ROUND_TO_LONG(n) == ((n + 3) \div 4) * 4

(***************************************************************************)
(* State.                                                                  *)
(***************************************************************************)
VARIABLES
  handles,            \* METAFILEDEVICECONTEXT::handles, the bit vector of used handles
  header,             \* *header: the fields of the ENHMETAHEADER the context updates
  records,            \* METAFILEDEVICECONTEXT::records, header first
  update_frame,       \* METAFILEDEVICECONTEXT::update_frame
  window_ext,         \* window extent (cx, cy)
  window_org,         \* window origin (x, y)
  viewport_ext,       \* viewport extent (cx, cy)
  viewport_org,       \* viewport origin (x, y)
  min_device_point,   \* left/top-most painted point
  max_device_point,   \* right/bottom-most painted point
  logical_point,      \* mergePoint's parameter p at its last call
  device_point,       \* mergePoint's local: the device point it last computed
  merged,             \* history: the device points merged so far
  ret,                \* the value the last nextHandle returned (0: none yet)
  held,               \* history: per handle, allocations returned and not cleared since
  stale,              \* history: a handle some object held when it was cleared (0: none)
  released,           \* history: per record the context ever held, in the order
                      \*   they entered the list, how often it was deleted
  destroyed,          \* the context's destructor has run
  op,                 \* the operation that produced this state
  rec,                \* the record last constructed or parsed (record algebra)
  fp_,                \* DATASTREAM::fp_: the bytes of the file, from the position on
  swap_,              \* DATASTREAM::swap_: the host is big-endian
  sent                \* history: the record whose bytes the file was given

\* The handle table and its history; the mapping; the painted area.
handleVars == <<handles, ret, held, stale>>
mappingVars == <<window_ext, window_org, viewport_ext, viewport_org>>
paintVars == <<update_frame, min_device_point, max_device_point, logical_point,
               device_point, merged>>
lifeVars == <<released, destroyed>>
ctx == <<handleVars, header, records, mappingVars, paintVars, lifeVars>>
streamVars == <<fp_, swap_, sent>>
vars == <<ctx, op, rec, streamVars>>

NoRec == [kind |-> "none"]

Pt(x, y) == [x |-> x, y |-> y]
Sz(cx, cy) == [cx |-> cx, cy |-> cy]
Rect(l, t, r, b) == [left |-> l, top |-> t, right |-> r, bottom |-> b]

(***************************************************************************)
(* Records: what the DATASTREAM operators write.                           *)
(***************************************************************************)
\* Bytes written by DATASTREAM::operator<< for one operand of the given type
\* (structures are written field by field).
Width(t) ==
  CASE t = "BYTE" -> 1
    [] t = "WORD" -> 2
    [] t = "INT16" -> 2
    [] t \in {"DWORD", "LONG", "INT", "UINT", "FLOAT"} -> 4
    [] t \in {"SIZEL", "POINTL", "EMR"} -> 4 + 4
    [] t = "POINT16" -> 2 + 2
    [] t = "RECTL" -> 4 + 4 + 4 + 4
    [] t = "XFORM" -> 6 * 4
    [] t = "EMRTEXT" -> (4 + 4) + 4 + 4 + 4 + (4 + 4 + 4 + 4) + 4

RECURSIVE SumWidths(_)
SumWidths(ts) == IF ts = <<>> THEN 0 ELSE Width(Head(ts)) + SumWidths(Tail(ts))

RECURSIVE SumSeq(_)
SumSeq(q) == IF q = <<>> THEN 0 ELSE Head(q) + SumSeq(Tail(q))

Poly32Kinds == {"EMRPOLYLINE", "EMRPOLYGON", "EMRPOLYBEZIER", "EMRPOLYBEZIERTO",
                "EMRPOLYLINETO"}
Poly16Kinds == {"EMRPOLYLINE16", "EMRPOLYGON16", "EMRPOLYBEZIER16",
                "EMRPOLYBEZIERTO16", "EMRPOLYLINETO16"}
PolyKinds == Poly32Kinds \cup Poly16Kinds
PolyPolygonKinds == {"EMRPOLYPOLYGON", "EMRPOLYPOLYGON16"}
TextKinds == {"EMREXTTEXTOUTA", "EMREXTTEXTOUTW"}
FixedKinds ==
  {"EMREOF", "EMRSETVIEWPORTORGEX", "EMRSETWINDOWORGEX", "EMRSETVIEWPORTEXTEX",
   "EMRSCALEVIEWPORTEXTEX", "EMRSETWINDOWEXTEX", "EMRSCALEWINDOWEXTEX",
   "EMRMODIFYWORLDTRANSFORM", "EMRSETWORLDTRANSFORM", "EMRSETTEXTALIGN",
   "EMRSETTEXTCOLOR", "EMRSETBKCOLOR", "EMRSETBKMODE", "EMRSETPOLYFILLMODE",
   "EMRSETMAPMODE", "EMRSELECTOBJECT", "EMRDELETEOBJECT", "EMRMOVETOEX",
   "EMRLINETO", "EMRARC", "EMRARCTO", "EMRRECTANGLE", "EMRELLIPSE",
   "EMRSETPIXELV", "EMRFILLPATH", "EMRSTROKEPATH", "EMRSTROKEANDFILLPATH",
   "EMRBEGINPATH", "EMRENDPATH", "EMRCLOSEFIGURE", "EMRSAVEDC", "EMRRESTOREDC",
   "EMRSETMETARGN", "EMRSETMITERLIMIT"}

\* The operands each record's serialize() writes before any variable-length
\* payload, in order.
Fields(kind) ==
  CASE kind = "ENHMETAHEADER" ->
         <<"DWORD", "DWORD", "RECTL", "RECTL", "DWORD", "DWORD", "DWORD", "DWORD",
           "WORD", "WORD", "DWORD", "DWORD", "DWORD", "SIZEL", "SIZEL",
           "DWORD", "DWORD", "DWORD", "SIZEL">>
    [] kind = "EMREOF" -> <<"EMR", "DWORD", "DWORD", "DWORD">>
    [] kind \in {"EMRSETVIEWPORTORGEX", "EMRSETWINDOWORGEX", "EMRMOVETOEX",
                 "EMRLINETO"} -> <<"EMR", "POINTL">>
    [] kind \in {"EMRSETVIEWPORTEXTEX", "EMRSETWINDOWEXTEX"} -> <<"EMR", "SIZEL">>
    [] kind \in {"EMRSCALEVIEWPORTEXTEX", "EMRSCALEWINDOWEXTEX"} ->
         <<"EMR", "LONG", "LONG", "LONG", "LONG">>
    [] kind = "EMRMODIFYWORLDTRANSFORM" -> <<"EMR", "XFORM", "DWORD">>
    [] kind = "EMRSETWORLDTRANSFORM" -> <<"EMR", "XFORM">>
    [] kind \in {"EMRSETTEXTALIGN", "EMRSETTEXTCOLOR", "EMRSETBKCOLOR",
                 "EMRSETBKMODE", "EMRSETPOLYFILLMODE", "EMRSETMAPMODE",
                 "EMRSELECTOBJECT", "EMRDELETEOBJECT"} -> <<"EMR", "DWORD">>
    [] kind \in {"EMRARC", "EMRARCTO"} -> <<"EMR", "RECTL", "POINTL", "POINTL">>
    [] kind \in {"EMRRECTANGLE", "EMRELLIPSE", "EMRFILLPATH", "EMRSTROKEPATH",
                 "EMRSTROKEANDFILLPATH"} -> <<"EMR", "RECTL">>
    [] kind = "EMRSETPIXELV" -> <<"EMR", "POINTL", "DWORD">>
    [] kind \in {"EMRBEGINPATH", "EMRENDPATH", "EMRCLOSEFIGURE", "EMRSAVEDC",
                 "EMRSETMETARGN"} -> <<"EMR">>
    [] kind = "EMRRESTOREDC" -> <<"EMR", "LONG">>
    [] kind = "EMRSETMITERLIMIT" -> <<"EMR", "INT">>
    [] kind \in PolyKinds -> <<"EMR", "RECTL", "DWORD">>
    [] kind \in PolyPolygonKinds -> <<"EMR", "RECTL", "DWORD", "DWORD">>
    [] kind \in TextKinds -> <<"EMR", "RECTL", "DWORD", "FLOAT", "FLOAT", "EMRTEXT">>

\* sizeof( ::<kind> ): the structures of the metafile format (ECMA-234), as
\* the record classes' base structures declare them.  A poly structure ends
\* in a one-element array (aptl[1], apts[1], and aPolyCounts[1] before it).
SizeofStruct(kind) ==
  CASE kind = "ENHMETAHEADER" -> 108
    [] kind = "EMREOF" -> 20
    [] kind \in {"EMRSETVIEWPORTORGEX", "EMRSETWINDOWORGEX", "EMRMOVETOEX",
                 "EMRLINETO", "EMRSETVIEWPORTEXTEX", "EMRSETWINDOWEXTEX"} -> 16
    [] kind \in {"EMRSCALEVIEWPORTEXTEX", "EMRSCALEWINDOWEXTEX"} -> 24
    [] kind = "EMRMODIFYWORLDTRANSFORM" -> 36
    [] kind = "EMRSETWORLDTRANSFORM" -> 32
    [] kind \in {"EMRSETTEXTALIGN", "EMRSETTEXTCOLOR", "EMRSETBKCOLOR",
                 "EMRSETBKMODE", "EMRSETPOLYFILLMODE", "EMRSETMAPMODE",
                 "EMRSELECTOBJECT", "EMRDELETEOBJECT", "EMRRESTOREDC",
                 "EMRSETMITERLIMIT"} -> 12
    [] kind \in {"EMRARC", "EMRARCTO"} -> 40
    [] kind \in {"EMRRECTANGLE", "EMRELLIPSE", "EMRFILLPATH", "EMRSTROKEPATH",
                 "EMRSTROKEANDFILLPATH"} -> 24
    [] kind = "EMRSETPIXELV" -> 20
    [] kind \in {"EMRBEGINPATH", "EMRENDPATH", "EMRCLOSEFIGURE", "EMRSAVEDC",
                 "EMRSETMETARGN"} -> 8
    [] kind \in Poly32Kinds -> 28 + 8
    [] kind \in Poly16Kinds -> 28 + 4
    [] kind = "EMRPOLYPOLYGON" -> 32 + 4 + 8
    [] kind = "EMRPOLYPOLYGON16" -> 32 + 4 + 4
    [] kind \in TextKinds -> 76

\* sizeof(POINTL) or sizeof(POINT16): the element of a poly record's array.
ElemSize(kind) ==
  IF kind \in Poly32Kinds \cup {"EMRPOLYPOLYGON"} THEN Width("POINTL")
                                                   ELSE Width("POINT16")

\* sizeof(CHAR) or sizeof(WCHAR): the character of a text record.
CharSize(kind) == IF kind = "EMREXTTEXTOUTA" THEN Width("BYTE") ELSE Width("WORD")

\* The fields of a record that its size and its serialization depend on.
\*   cnt: cptl / cpts / emrtext.nChars;  dx: dx_i is not null;
\*   error: the message of the exception the stream constructor threw ("": none);
\*   consumed: the bytes the stream constructor asked the stream for;
\*   members: the values of the members serialize() writes, in its order
\*   (empty where only the sizes matter);
\*   allocated: the element counts of the arrays the stream constructor
\*   allocated with new[], in the order it allocated them.
BlankRec(kind) ==
  [kind |-> kind, origin |-> "constructed", error |-> "",
   nSize |-> 0, cnt |-> 0, nPolys |-> 0, lcounts |-> <<>>,
   string_size |-> 0, dx |-> FALSE, offString |-> 0, offDx |-> 0,
   nDescription |-> 0, offDescription |-> 0, description_size |-> 0,
   consumed |-> 0, members |-> <<>>, allocated |-> <<>>]

\* A DWORD as two 16-bit halves, for the values that do not fit the
\* integers of the model checker; DW(n) is the DWORD of a small n.
DW(n) == [hi |-> n \div 65536, lo |-> n % 65536]

\* a + b on DWORDs (modulo 2^32), and a < b.
AddDW(a, b) ==
  [hi |-> (a.hi + b.hi + (a.lo + b.lo) \div 65536) % 65536,
   lo |-> (a.lo + b.lo) % 65536]
LessDW(a, b) == a.hi < b.hi \/ (a.hi = b.hi /\ a.lo < b.lo)

(***************************************************************************)
(* DATASTREAM: the primitive operators.  A value in memory is the sequence *)
(* of its bytes p[0], p[1], ... (indices 1, 2, ... here); the stream is    *)
(* the sequence of the bytes of the file.                                  *)
(***************************************************************************)
\* The primitive types that have an operator<< and an operator>>.
PrimitiveTypes ==
  {"BYTE", "WORD", "INT16", "DWORD", "LONG", "INT", "UINT", "FLOAT"}

\* ::fread and ::fwrite: the number of whole items moved when the stream can
\* move `avail` more bytes.
Items(size, nmemb, avail) ==
  IF size = 0 THEN 0
  ELSE IF avail \div size < nmemb THEN avail \div size ELSE nmemb

\* Mutant of the wrappers: the result of the transfer is not examined.
NeverThrows(size, nmemb, avail) == FALSE

\* DATASTREAM::fread and DATASTREAM::fwrite: the wrapper throws.
Throws(size, nmemb, avail) == Items(size, nmemb, avail) < nmemb

\* The transfers one primitive operator makes, as the size of each (nmemb is
\* 1 in all of them): the value whole, or byte by byte when swapping.
Calls(t, swap) ==
  IF swap /\ Width(t) > 1 THEN [i \in 1..Width(t) |-> 1] ELSE <<Width(t)>>

\* Mutant of RunCalls: only the first transfer of an operator is examined.
RunCallsFirstOnly(calls, avail) ==
  [moved |-> IF avail < SumSeq(calls) THEN avail ELSE SumSeq(calls),
   threw |-> calls # <<>> /\ Throws(Head(calls), 1, avail)]

RECURSIVE RunCalls(_, _)
\* The calls made in turn on a stream that can move `avail` bytes: the bytes
\* moved, and whether a call threw (the calls after it are not made).
RunCalls(calls, avail) ==
  IF calls = <<>> THEN [moved |-> 0, threw |-> FALSE]
  ELSE IF Throws(Head(calls), 1, avail)
    THEN [moved |-> avail, threw |-> TRUE]
    ELSE LET then == RunCalls(Tail(calls), avail - Head(calls))
         IN  [moved |-> Head(calls) + then.moved, threw |-> then.threw]

\* Mutant of the swapping writer: the bytes of each half are swapped, the
\* halves are not.
PutHalves(t, p, swap) ==
  IF swap /\ Width(t) = 4 THEN <<p[2], p[1], p[4], p[3]>>
  ELSE IF swap /\ Width(t) = 2 THEN <<p[2], p[1]>>
  ELSE p

\* operator<< of a primitive: the bytes in the order they are written.
Put(t, p, swap) ==
  IF swap /\ Width(t) = 2 THEN <<p[2], p[1]>>
  ELSE IF swap /\ Width(t) = 4 THEN <<p[4], p[3], p[2], p[1]>>
  ELSE p

\* operator>> of a primitive: the memory after the bytes b were read.
Get(t, b, swap) ==
  IF swap /\ Width(t) = 2 THEN <<b[2], b[1]>>
  ELSE IF swap /\ Width(t) = 4 THEN <<b[4], b[3], b[2], b[1]>>
  ELSE b

(***************************************************************************)
(* Records: the programmatic constructors.  DWORD arithmetic is modulo     *)
(* 2^32; for the counts of this model every result lies in 0..2^31-1, and  *)
(* an intermediate "count - 1" of a zero count, which wraps in the code,   *)
(* is the congruent integer -1 here.                                       *)
(***************************************************************************)
\* A description is "some text\0some more text\0\0": code units, of which
\* the constructor scans up to and including the third NUL.
NoDescription == <<>>

\* Mutant of ScanDescription: the whole argument is counted.
ScanWholeDescription(description, i, nulls) == Len(description)

RECURSIVE ScanDescription(_, _, _)
\* description_count of the scanning loop: i code units scanned, nulls seen.
ScanDescription(description, i, nulls) ==
  IF nulls >= 3 THEN i
  ELSE ScanDescription(description, i + 1,
                       IF description[i + 1] = 0 THEN nulls + 1 ELSE nulls)

\* ENHMETAHEADER::ENHMETAHEADER( description )
NewHeader(description) ==
  IF description = NoDescription
  THEN [BlankRec("ENHMETAHEADER") EXCEPT !.nSize = SizeofStruct("ENHMETAHEADER")]
  ELSE LET description_count == ScanDescription(description, 0, 0)
           record_size == ROUND_TO_LONG(SizeofStruct("ENHMETAHEADER")
                                          + Width("WORD") * description_count)
       IN [BlankRec("ENHMETAHEADER") EXCEPT
             !.description_size =
                 (record_size - SizeofStruct("ENHMETAHEADER")) \div Width("WORD"),
             !.nSize = record_size,
             !.nDescription = description_count,
             !.offDescription = SizeofStruct("ENHMETAHEADER")]

\* The constructors of the fixed-size records: emr.nSize = sizeof( ::<kind> ).
NewFixed(kind) == [BlankRec(kind) EXCEPT !.nSize = SizeofStruct(kind)]

\* Mutant of NewPoly: the one-element array of the structure is counted too.
NewPolyCountsArray(kind, n) ==
  [BlankRec(kind) EXCEPT
     !.cnt = n,
     !.nSize = SizeofStruct(kind) + ElemSize(kind) * n]

\* EMRPOLYLINE( bounds, points, n ) and the other nine poly constructors.
NewPoly(kind, n) ==
  [BlankRec(kind) EXCEPT
     !.cnt = n,
     !.nSize = SizeofStruct(kind) + ElemSize(kind) * (n - 1)]

\* EMRPOLYPOLYGON( bounds, points, counts, polygons ) and EMRPOLYPOLYGON16.
NewPolyPolygon(kind, counts) ==
  LET nPolys == Len(counts)
      n == SumSeq(counts)
  IN [BlankRec(kind) EXCEPT
        !.nPolys = nPolys,
        !.cnt = n,
        !.lcounts = [i \in DOMAIN counts |-> DW(counts[i])],
        !.nSize = SizeofStruct(kind) + ElemSize(kind) * (n - 1)
                    + Width("DWORD") * (nPolys - 1)]

\* Mutant of NewExtTextOut: the string is not padded to a multiple of four
\* characters.
NewExtTextOutUnpadded(kind, nChars, dx) ==
  LET offString == SizeofStruct(kind)
      withString == offString + nChars * CharSize(kind)
  IN [BlankRec(kind) EXCEPT
        !.cnt = nChars,
        !.string_size = nChars,
        !.offString = offString,
        !.dx = dx,
        !.offDx = IF dx THEN withString ELSE 0,
        !.nSize = IF dx THEN withString + nChars * Width("INT") ELSE withString]

\* Mutant of NewExtTextOut: offDx is taken before the string is counted.
NewExtTextOutDxAtString(kind, nChars, dx) ==
  LET string_size == ROUND_TO_LONG(nChars)
      offString == SizeofStruct(kind)
      withString == offString + string_size * CharSize(kind)
  IN [BlankRec(kind) EXCEPT
        !.cnt = nChars,
        !.string_size = string_size,
        !.offString = offString,
        !.dx = dx,
        !.offDx = IF dx THEN offString ELSE 0,
        !.nSize = IF dx THEN withString + nChars * Width("INT") ELSE withString]

\* EMREXTTEXTOUTA( bounds, mode, xScale, yScale, text, string, dx ) and
\* EMREXTTEXTOUTW: nChars is text->nChars, dx tells whether dx is not null.
NewExtTextOut(kind, nChars, dx) ==
  LET string_size == ROUND_TO_LONG(nChars)
      offString == SizeofStruct(kind)
      withString == offString + string_size * CharSize(kind)
  IN [BlankRec(kind) EXCEPT
        !.cnt = nChars,
        !.string_size = string_size,
        !.offString = offString,
        !.dx = dx,
        !.offDx = IF dx THEN withString ELSE 0,
        !.nSize = IF dx THEN withString + nChars * Width("INT") ELSE withString]

(***************************************************************************)
(* Records: serialize() and size().                                        *)
(***************************************************************************)
\* The number of bytes serialize() writes for record r.
SerializedBytes(r) ==
  SumWidths(Fields(r.kind))
    + CASE r.kind = "ENHMETAHEADER" -> Width("WORD") * r.description_size
        [] r.kind \in PolyKinds -> ElemSize(r.kind) * r.cnt
        [] r.kind \in PolyPolygonKinds ->
             Width("DWORD") * r.nPolys + ElemSize(r.kind) * r.cnt
        [] r.kind \in TextKinds ->
             CharSize(r.kind) * r.string_size
               + (IF r.dx THEN Width("INT") * r.cnt ELSE 0)
        [] OTHER -> 0

\* size(): every record returns its nSize.
size(r) == r.nSize

(***************************************************************************)
(* Records: the stream constructors.  The stream supplies the declared     *)
(* fields; a constructor either throws (the record's error is set and no   *)
(* record exists) or yields the record.                                    *)
(***************************************************************************)
\* a - b < c as the code evaluates it on unsigned operands: when a < b the
\* difference wraps to at least 2^32 - b, which is above every c of this
\* model, so the comparison is false.
UnsignedDiffLess(a, b, c) == IF a >= b THEN a - b < c ELSE FALSE

\* The stream constructor throws: no record exists; r holds the members
\* assigned up to the throw.
Rejected(r, message) == [r EXCEPT !.error = message]

\* The stream constructors of the fixed-size records: ds >> emr >> fields.
ParseFixed(kind, nSize) ==
  [BlankRec(kind) EXCEPT !.origin = "parsed", !.nSize = nSize,
                         !.consumed = SumWidths(Fields(kind))]

\* EMRPOLYLINE( DATASTREAM& ) and the other nine poly stream constructors.
ParsePoly(kind, nSize, cnt) ==
  LET read == [BlankRec(kind) EXCEPT !.origin = "parsed", !.nSize = nSize,
                 !.cnt = cnt, !.consumed = SumWidths(Fields(kind))]
  IN IF UnsignedDiffLess(nSize, SizeofStruct(kind) - ElemSize(kind),
                         ElemSize(kind) * cnt)
     THEN Rejected(read, "Invalid record size")
     ELSE [read EXCEPT !.consumed = @ + ElemSize(kind) * cnt,
                       !.allocated = <<cnt>>]

\* Mutant of CountsOverflow: the wrap of the running sum goes unnoticed.
CountsNeverOverflow(counts, c, n) == FALSE

RECURSIVE CountsOverflow(_, _, _)
\* The loop over cbuffer from index c with running sum n: does n += cbuffer[c]
\* make n < n_old at some c?
CountsOverflow(counts, c, n) ==
  IF c > Len(counts) THEN FALSE
  ELSE LessDW(AddDW(n, counts[c]), n)
         \/ CountsOverflow(counts, c + 1, AddDW(n, counts[c]))

RECURSIVE CountsSum(_, _, _)
\* n after the loop.
CountsSum(counts, c, n) ==
  IF c > Len(counts) THEN n ELSE CountsSum(counts, c + 1, AddDW(n, counts[c]))

\* EMRPOLYPOLYGON( DATASTREAM& ) and EMRPOLYPOLYGON16( DATASTREAM& ): counts
\* are the nPolys per-polygon counts (DWORDs) the stream holds.
ParsePolyPolygon(kind, nSize, cnt, counts) ==
  LET nPolys == Len(counts)
      read == [BlankRec(kind) EXCEPT !.origin = "parsed", !.nSize = nSize,
                 !.cnt = cnt, !.nPolys = nPolys,
                 !.consumed = SumWidths(Fields(kind))]
      counted == [read EXCEPT !.lcounts = counts,
                              !.consumed = @ + Width("DWORD") * nPolys,
                              !.allocated = <<nPolys>>]
  IN IF UnsignedDiffLess(nSize,
                         SizeofStruct(kind) - ElemSize(kind) - Width("DWORD"),
                         ElemSize(kind) * cnt + Width("DWORD") * nPolys)
     THEN Rejected(read, "Invalid record size")
     ELSE IF CountsOverflow(counts, 1, DW(0))
     THEN Rejected(counted, "Unsigned overflow")
     ELSE IF LessDW(DW(cnt), CountsSum(counts, 1, DW(0)))
     THEN Rejected(counted, "Too few points")
     ELSE [counted EXCEPT !.consumed = @ + ElemSize(kind) * cnt,
                          !.allocated = <<nPolys, cnt>>]

\* Mutant of ParseExtTextOut: a character count without a string offset is
\* let through.
ParseExtTextOutNoOffsetCheck(kind, nSize, nChars, offString, offDx, indeterminate) ==
  [BlankRec(kind) EXCEPT
     !.origin = "parsed", !.nSize = nSize, !.cnt = nChars,
     !.offString = offString, !.offDx = offDx,
     !.string_size = IF offString # 0 THEN ROUND_TO_LONG(nChars)
                                      ELSE indeterminate,
     !.dx = (offDx # 0),
     !.consumed = SumWidths(Fields(kind))
                    + (IF offString # 0
                       THEN CharSize(kind) * ROUND_TO_LONG(nChars) ELSE 0)
                    + (IF offDx # 0 THEN Width("INT") * nChars ELSE 0),
     !.allocated = (IF offString # 0 THEN <<ROUND_TO_LONG(nChars)>> ELSE <<>>)
                     \o (IF offDx # 0 THEN <<nChars>> ELSE <<>>)]

\* EMREXTTEXTOUTA( DATASTREAM& ) and EMREXTTEXTOUTW( DATASTREAM& ).  The
\* member string_size has no initializer and is assigned only when
\* offString is not 0: otherwise it keeps an indeterminate value.  The
\* string and the dx array are read where the stream stands, after emrtext.
ParseExtTextOut(kind, nSize, nChars, offString, offDx, indeterminate) ==
  LET read == [BlankRec(kind) EXCEPT
                 !.origin = "parsed", !.nSize = nSize, !.cnt = nChars,
                 !.offString = offString, !.offDx = offDx,
                 !.string_size = indeterminate,
                 !.consumed = SumWidths(Fields(kind))]
  IN IF nChars > 0 /\ offString = 0
     THEN Rejected(read, "Invalid text specification")
     ELSE IF UnsignedDiffLess(nSize, offString, nChars)
     THEN Rejected(read, "Invalid text specification")
     ELSE [read EXCEPT
             !.string_size = IF offString # 0 THEN ROUND_TO_LONG(nChars)
                                              ELSE indeterminate,
             !.dx = (offDx # 0),
             !.consumed = @ + (IF offString # 0
                               THEN CharSize(kind) * ROUND_TO_LONG(nChars)
                               ELSE 0)
                            + (IF offDx # 0 THEN Width("INT") * nChars ELSE 0),
             !.allocated =
                (IF offString # 0 THEN <<ROUND_TO_LONG(nChars)>> ELSE <<>>)
                  \o (IF offDx # 0 THEN <<nChars>> ELSE <<>>)]

(***************************************************************************)
(* Records on the stream.  A value of a primitive type lies in memory in   *)
(* the byte order of the host, and the host is big-endian exactly when the *)
(* stream swaps (swap_ is bigEndian()).                                    *)
(***************************************************************************)
RECURSIVE LittleEndian(_, _)
\* The n bytes of v in two's complement, least significant first.
LittleEndian(v, n) ==
  IF n = 0 THEN <<>> ELSE <<v % 256>> \o LittleEndian(v \div 256, n - 1)

\* The bytes of the value v of type t in the memory of the host.
InMemory(t, v, big) ==
  LET le == LittleEndian(v, Width(t))
  IN IF big THEN [i \in 1 .. Width(t) |-> le[Width(t) + 1 - i]] ELSE le

RECURSIVE Unsigned(_)
RECURSIVE Signed(_)
\* The value of bytes given least significant first.
Unsigned(le) == IF le = <<>> THEN 0 ELSE Head(le) + 256 * Unsigned(Tail(le))
Signed(le) ==
  IF Len(le) = 1 THEN (IF le[1] >= 128 THEN le[1] - 256 ELSE le[1])
  ELSE Head(le) + 256 * Signed(Tail(le))

\* The value of type t whose bytes in the memory of the host are p.
ValueOf(t, p, big) ==
  LET le == IF big THEN [i \in 1 .. Width(t) |-> p[Width(t) + 1 - i]] ELSE p
  IN IF t \in {"LONG", "INT", "INT16"} THEN Signed(le) ELSE Unsigned(le)

\* The primitives the operator of a structure transfers, in its order.
Primitives(t) ==
  CASE t = "EMR" -> <<"DWORD", "DWORD">>
    [] t = "RECTL" -> <<"LONG", "LONG", "LONG", "LONG">>
    [] t \in {"SIZEL", "POINTL"} -> <<"LONG", "LONG">>
    [] t = "POINT16" -> <<"INT16", "INT16">>
    [] t = "XFORM" -> <<"FLOAT", "FLOAT", "FLOAT", "FLOAT", "FLOAT", "FLOAT">>
    [] t = "EMRTEXT" -> <<"LONG", "LONG", "DWORD", "DWORD", "DWORD",
                          "LONG", "LONG", "LONG", "LONG", "DWORD">>
    [] OTHER -> <<t>>

RECURSIVE Flatten(_)
Flatten(ts) == IF ts = <<>> THEN <<>> ELSE Primitives(Head(ts)) \o Flatten(Tail(ts))

Repeat(t, n) == [i \in 1 .. n |-> t]

\* The primitive a coordinate of a poly record's points is, and the one a
\* character of a text record is.
CoordType(kind) ==
  IF kind \in Poly32Kinds \cup {"EMRPOLYPOLYGON"} THEN "LONG" ELSE "INT16"
CharType(kind) == IF kind = "EMREXTTEXTOUTA" THEN "BYTE" ELSE "WORD"

\* The primitives serialize() writes after the fixed operands: the arrays.
Payload(r) ==
  CASE r.kind = "ENHMETAHEADER" -> Repeat("WORD", r.description_size)
    [] r.kind \in PolyKinds -> Repeat(CoordType(r.kind), 2 * r.cnt)
    [] r.kind \in PolyPolygonKinds ->
         Repeat("DWORD", r.nPolys) \o Repeat(CoordType(r.kind), 2 * r.cnt)
    [] r.kind \in TextKinds ->
         Repeat(CharType(r.kind), r.string_size)
           \o (IF r.dx THEN Repeat("INT", r.cnt) ELSE <<>>)
    [] OTHER -> <<>>

\* Every primitive serialize() writes for record r, in order.
Layout(r) == Flatten(Fields(r.kind)) \o Payload(r)

\* The members the constructors compute, by their place in the layout.
Declared(r) ==
  CASE r.kind \in PolyKinds -> (2 :> r.nSize) @@ (7 :> r.cnt)
    [] r.kind \in PolyPolygonKinds ->
         (2 :> r.nSize) @@ (7 :> r.nPolys) @@ (8 :> r.cnt)
           @@ [i \in 9 .. 8 + r.nPolys |->
                 65536 * r.lcounts[i - 8].hi + r.lcounts[i - 8].lo]
    [] r.kind \in TextKinds ->
         (2 :> r.nSize) @@ (12 :> r.cnt) @@ (13 :> r.offString)
           @@ (19 :> r.offDx)
    [] OTHER -> (2 :> r.nSize)

\* A record after its constructor copied its arguments: the computed members
\* as the constructor sets them, a string padded with zeros, and for every
\* other member a value that depends on the argument `seed` and differs
\* from member to member (emr.iType among them: the EMR_ codes are opaque
\* to the stream).
WithMembers(r, seed) ==
  LET L == Layout(r)
      H == Len(Flatten(Fields(r.kind)))
      d == Declared(r)
      magnitude == IF seed < 0 THEN 0 - seed ELSE seed
  IN [r EXCEPT !.members =
        [i \in 1 .. Len(L) |->
           IF i \in DOMAIN d THEN d[i]
           ELSE IF L[i] \in {"BYTE", "WORD"}
             THEN (IF i - H <= r.cnt THEN 64 + (i - H) ELSE 0)
           ELSE IF L[i] \in {"LONG", "INT", "INT16"} THEN seed + i
           ELSE 256 * magnitude + i]]

\* The header after ENHMETAHEADER::ENHMETAHEADER( description ): the
\* members the constructor assigns, then description_w.
HeaderWithMembers(description) ==
  LET r == NewHeader(description)
  IN [r EXCEPT !.members =
        <<1, r.nSize, 0, 0, 0, 0, 0, 0, 0, 0, 1179469088, 65536, r.nSize, 1,
          0, 0, r.nDescription, r.offDescription, 0,
          XMAX_PIXELS, YMAX_PIXELS, XMAX_MM, YMAX_MM, 0, 0, 0,
          1000 * XMAX_MM, 1000 * YMAX_MM>>
          \o [j \in 1 .. r.description_size |->
                IF j <= r.nDescription THEN description[j] ELSE 0]]

\* Where each operand of a chain of operators starts: the bytes the
\* operands before it take.
Offsets(types) ==
  [i \in 1 .. Len(types) |-> SumWidths(SubSeq(types, 1, i - 1))]

\* ds << each value in turn: the bytes written.
WriteValues(types, values, swap) ==
  LET off == Offsets(types)
  IN [k \in 1 .. SumWidths(types) |->
        LET i == CHOOSE j \in 1 .. Len(types) :
                   off[j] < k /\ k <= off[j] + Width(types[j])
        IN Put(types[i], InMemory(types[i], values[i], swap), swap)[k - off[i]]]

\* serialize(): the bytes written for record r.
serialize(r, swap) == WriteValues(Layout(r), r.members, swap)

\* ds >> each value in turn from the bytes of the stream: the values read,
\* the bytes moved, and whether an operator threw (nothing is read after).
ReadValues(types, bytes, swap) ==
  LET off == Offsets(types)
      left(i) == IF Len(bytes) < off[i] THEN 0 ELSE Len(bytes) - off[i]
      short == {i \in 1 .. Len(types) :
                  RunCalls(Calls(types[i], swap), left(i)).threw}
      read == {i \in 1 .. Len(types) : \A j \in short : i < j}
  IN [values |-> [i \in 1 .. Cardinality(read) |->
                    ValueOf(types[i],
                            Get(types[i],
                                SubSeq(bytes, off[i] + 1,
                                       off[i] + Width(types[i])),
                                swap),
                            swap)],
      moved |-> IF short = {} THEN SumWidths(types) ELSE Len(bytes),
      threw |-> short # {}]

\* What a stream constructor reads after the fixed operands, once it has
\* accepted them: the arrays (a text record's string only when offString is
\* not 0, its dx array only when offDx is not 0).
PayloadRead(r) ==
  IF r.kind \in TextKinds
  THEN (IF r.offString # 0 THEN Repeat(CharType(r.kind), ROUND_TO_LONG(r.cnt))
                           ELSE <<>>)
         \o (IF r.offDx # 0 THEN Repeat("INT", r.cnt) ELSE <<>>)
  ELSE Payload(r)

\* A stream constructor run on the bytes of a stream: the fixed operands
\* are read, the constructor examines them, and the arrays are read.  An
\* operator that throws ends the constructor.
FromStream(kind, bytes, swap, indeterminate) ==
  LET fixed == ReadValues(Flatten(Fields(kind)), bytes, swap)
      v == fixed.values
      rest == SubSeq(bytes, fixed.moved + 1, Len(bytes))
      counts == ReadValues(Repeat("DWORD", v[7]), rest, swap)
      examined ==
        CASE kind \in PolyKinds -> ParsePoly(kind, v[2], v[7])
          [] kind \in PolyPolygonKinds ->
               ParsePolyPolygon(kind, v[2], v[8],
                                IF counts.threw THEN Repeat(DW(0), v[7])
                                ELSE [i \in 1 .. v[7] |-> DW(counts.values[i])])
          [] kind \in TextKinds ->
               ParseExtTextOut(kind, v[2], v[12], v[13], v[19], indeterminate)
          [] OTHER -> ParseFixed(kind, v[2])
      arrays == ReadValues(PayloadRead(examined), rest, swap)
      string == ReadValues(IF kind \in TextKinds /\ examined.offString # 0
                           THEN Repeat(CharType(kind), ROUND_TO_LONG(examined.cnt))
                           ELSE <<>>, rest, swap)
  IN IF fixed.threw
     THEN Rejected([BlankRec(kind) EXCEPT !.origin = "parsed",
                                          !.consumed = fixed.moved],
                   "Premature EOF on EMF stream")
     ELSE IF examined.error = "Invalid record size"
               \/ examined.error = "Invalid text specification"
     THEN [examined EXCEPT !.members = v]
     ELSE IF kind \in PolyPolygonKinds /\ counts.threw
     THEN Rejected([examined EXCEPT !.members = v,
                                    !.consumed = fixed.moved + counts.moved,
                                    !.allocated = <<v[7]>>],
                   "Premature EOF on EMF stream")
     ELSE IF examined.error # ""
     THEN [examined EXCEPT !.members = v \o counts.values]
     ELSE IF arrays.threw
     THEN Rejected([examined EXCEPT !.members = v,
                                    !.consumed = fixed.moved + arrays.moved,
                                    !.allocated =
                                       IF kind \in TextKinds /\ string.threw
                                       THEN <<ROUND_TO_LONG(examined.cnt)>>
                                       ELSE @],
                   "Premature EOF on EMF stream")
     ELSE [examined EXCEPT !.members = v \o arrays.values]

\* The test "offset <= offDescription" that guards the members added to the
\* header at later dates.
HasLaterMember(offset, offDescription) == offset <= offDescription

\* Nothing is asked of the stream: the members keep the values they have.
Kept(values) == [values |-> values, moved |-> 0, threw |-> FALSE]

\* ENHMETAHEADER::unserialize( ds ) on the header h, on the bytes of a
\* stream.  Defined for nSize >= offDescription (the difference is unsigned
\* in the code).
unserialize(h, bytes, swap) ==
  LET first == ReadValues(Flatten(SubSeq(Fields("ENHMETAHEADER"), 1, 15)),
                          bytes, swap)
      v == first.values
      nSize == v[2]
      nDescription == v[17]
      offDescription == v[18]
      after1 == SubSeq(bytes, first.moved + 1, Len(bytes))
      pixel ==
        IF HasLaterMember(SumWidths(SubSeq(Fields("ENHMETAHEADER"), 1, 18)),
                          offDescription)
        THEN ReadValues(<<"DWORD", "DWORD", "DWORD">>, after1, swap)
        ELSE Kept(SubSeq(h.members, 24, 26))
      after2 == SubSeq(after1, pixel.moved + 1, Len(after1))
      micro ==
        IF HasLaterMember(SizeofStruct("ENHMETAHEADER"), offDescription)
        THEN ReadValues(Primitives("SIZEL"), after2, swap)
        ELSE Kept(SubSeq(h.members, 27, 28))
      after3 == SubSeq(after2, micro.moved + 1, Len(after2))
      description_size_to_read == (nSize - offDescription) \div Width("WORD")
      description_size ==
        IF description_size_to_read < 2 THEN 2 ELSE description_size_to_read
      description ==
        ReadValues(Repeat("WORD", description_size_to_read), after3, swap)
      read == [h EXCEPT !.origin = "parsed", !.consumed = first.moved]
      known == [read EXCEPT !.nSize = nSize, !.nDescription = nDescription,
                            !.offDescription = offDescription]
  IN IF first.threw THEN Rejected(read, "Premature EOF on EMF stream")
     ELSE IF pixel.threw
     THEN Rejected([known EXCEPT !.consumed = @ + pixel.moved],
                   "Premature EOF on EMF stream")
     ELSE IF micro.threw
     THEN Rejected([known EXCEPT !.consumed = @ + pixel.moved + micro.moved],
                   "Premature EOF on EMF stream")
     ELSE IF description_size_to_read < nDescription
     THEN Rejected([known EXCEPT !.consumed = @ + pixel.moved + micro.moved],
                   "record size inconsistent with description size")
     ELSE IF description.threw
     THEN Rejected([known EXCEPT !.consumed = @ + pixel.moved + micro.moved
                                                + description.moved,
                                 !.allocated = <<description_size>>],
                   "Premature EOF on EMF stream")
     ELSE [known EXCEPT
             !.description_size = description_size,
             !.members = v \o pixel.values \o micro.values
                           \o [j \in 1 .. description_size |->
                                 IF j >= description_size - 1 THEN 0
                                 ELSE description.values[j]],
             !.consumed = @ + pixel.moved + micro.moved + description.moved,
             !.allocated = <<description_size>>]

(***************************************************************************)
(* The device context: construction.                                       *)
(***************************************************************************)
\* "size" of the constructor: a null pointer or a frame rectangle.
NoRect == Rect(0, 0, 0, 0)
FrameRects == {Rect(0, 0, 1000, 1000), Rect(-2000, -1000, 3000, 500)}
Descriptions ==
  {NoDescription, <<1, 0, 0, 0>>, <<1, 0, 1, 0, 0>>, <<2, 0, 3, 0, 0, 9>>}

HandleRange == 0 .. MaxHandles + 1

\* METAFILEDEVICECONTEXT::init( size, description_w ), called by the
\* constructor; hasSize tells whether size is not null.
init(hasSize, sz, description_w) ==
  LET h == NewHeader(description_w)
      szlDevice == Sz(XMAX_PIXELS, YMAX_PIXELS)
      szlMillimeters == Sz(XMAX_MM, YMAX_MM)
      bounds == IF hasSize
                THEN Rect(CDiv(sz.left * szlDevice.cx, szlMillimeters.cx * 100),
                          CDiv(sz.top * szlDevice.cy, szlMillimeters.cy * 100),
                          CDiv(sz.right * szlDevice.cx, szlMillimeters.cx * 100),
                          CDiv(sz.bottom * szlDevice.cy, szlMillimeters.cy * 100))
                ELSE Rect(-10, -10, 10, 10)
      frame == IF hasSize
               THEN sz
               ELSE Rect(Floor(bounds.left * szlMillimeters.cx * 100, szlDevice.cx),
                         Floor(bounds.top * szlMillimeters.cy * 100, szlDevice.cy),
                         Ceil(bounds.right * szlMillimeters.cx * 100, szlDevice.cx),
                         Ceil(bounds.bottom * szlMillimeters.cy * 100, szlDevice.cy))
  IN /\ handles = <<TRUE>>
     /\ header = [nSize |-> h.nSize, nBytes |-> h.nSize, nRecords |-> 1,
                  nHandles |-> 0, rclBounds |-> bounds, rclFrame |-> frame,
                  szlDevice |-> szlDevice, szlMillimeters |-> szlMillimeters]
     /\ records = <<h>>
     /\ update_frame = ~hasSize
     /\ viewport_ext = Sz(1, 1)
     /\ viewport_org = Pt(0, 0)
     /\ window_ext = Sz(1, 1)
     /\ window_org = Pt(0, 0)
     /\ min_device_point = Pt(0, 0)
     /\ max_device_point = Pt(0, 0)

\* The state after METAFILEDEVICECONTEXT( fp, size, description_w ).
Open(hasSize, sz, description_w) ==
  /\ init(hasSize, sz, description_w)
  /\ logical_point = Pt(0, 0)
  /\ device_point = Pt(0, 0)
  /\ merged = {}
  /\ ret = 0
  /\ held = [h \in HandleRange |-> 0]
  /\ stale = 0
  /\ released = <<0>>
  /\ destroyed = FALSE
  /\ op = "open"
  /\ rec = NoRec
  /\ fp_ = <<>>
  /\ sent = NoRec

Init ==
  /\ \E hasSize \in BOOLEAN, description_w \in Descriptions :
       \E sz \in (IF hasSize THEN FrameRects ELSE {NoRect}) :
         Open(hasSize, sz, description_w)
  /\ swap_ = FALSE

(***************************************************************************)
(* The device context: the records it holds.  The list holds the records   *)
(* that entered it since it was last cleared: the last Len(records) of all *)
(* the records the context ever held.  `header` is assigned once, by init, *)
(* and points to the first of them.                                        *)
(***************************************************************************)
\* The records in the list, by their place among all the context ever held.
Listed == (Len(released) - Len(records) + 1) .. Len(released)

\* The record `header` points to has not been deleted.
HeaderLive == released[1] = 0

\* The header after an operation stored x through `header`.  When the
\* record was deleted the store is to freed memory: what a later read of
\* the header finds is the value stored, or what was there before.
Stored(x) == IF HeaderLive THEN {x} ELSE {x, header}

(***************************************************************************)
(* The device context: handle allocation.                                  *)
(***************************************************************************)
\* Mutants of the scan: one that never reuses a slot, one that does not test
\* the bit, one that starts at index 0.
ScanAlwaysExtend(h, i) == Len(h)
ScanNoTest(h, i) == IF i >= Len(h) THEN Len(h) ELSE i
RECURSIVE ScanAll(_, _)
ScanAll(h, i) ==
  IF i >= Len(h) THEN Len(h)
  ELSE IF ~h[i + 1] THEN i
  ELSE ScanAll(h, i + 1)
ScanFromZero(h, i) == ScanAll(h, i - 1)

RECURSIVE ScanHandles(_, _)
\* The loop of nextHandle from index i: the first i' >= i with handles[i']
\* unset, or the table's size when there is none.
ScanHandles(h, i) ==
  IF i >= Len(h) THEN Len(h)
  ELSE IF ~h[i + 1] THEN i
  ELSE ScanHandles(h, i + 1)

\* METAFILEDEVICECONTEXT::nextHandle()
nextHandle ==
  LET i == ScanHandles(handles, 1)
  IN /\ ~destroyed
     /\ i < Len(handles) \/ Len(handles) <= MaxHandles
     /\ IF i < Len(handles)
        THEN /\ handles' = [handles EXCEPT ![i + 1] = TRUE]
             /\ header' = header
             /\ ret' = i
        ELSE /\ handles' = Append(handles, TRUE)
             /\ header' \in Stored([header EXCEPT
                                        !.nHandles = Len(handles') % (256 * 256)])
             /\ ret' = Len(handles') - 1
     /\ held' = [held EXCEPT ![ret'] = @ + 1]
     /\ op' = "nextHandle"
     /\ UNCHANGED <<stale, records, mappingVars, paintVars, lifeVars, rec,
                    streamVars>>

\* METAFILEDEVICECONTEXT::clearHandle( handle )
clearHandle ==
  \E handle \in HandleRange :
    /\ handles' = IF handle < Len(handles)
                  THEN [handles EXCEPT ![handle + 1] = FALSE]
                  ELSE handles
    /\ held' = [held EXCEPT ![handle] = 0]
    /\ stale' \in (IF held[handle] > 0 THEN {stale, handle} ELSE {stale})
    /\ op' = "clearHandle"
    /\ UNCHANGED <<ret, header, records, mappingVars, paintVars, lifeVars, rec,
                   streamVars>>

(***************************************************************************)
(* The device context: appending records.                                  *)
(***************************************************************************)
\* Records the drawing calls append.
AppendableRecords ==
  {NewFixed("EMRMOVETOEX"), NewFixed("EMRSELECTOBJECT"),
   NewPoly("EMRPOLYLINE", 2), NewExtTextOut("EMREXTTEXTOUTA", 3, FALSE)}

\* METAFILEDEVICECONTEXT::appendRecord( record )
appendRecord ==
  \E record \in AppendableRecords :
    /\ ~destroyed
    /\ Len(released) <= MaxRecords
    /\ records' = Append(records, record)
    /\ released' = Append(released, 0)
    /\ header' \in Stored([header EXCEPT !.nBytes = @ + size(record),
                                         !.nRecords = @ + 1])
    /\ op' = "appendRecord"
    /\ UNCHANGED <<handleVars, mappingVars, paintVars, destroyed, rec, streamVars>>

\* Mutant of appendHandle: the record count is not incremented.
appendHandleNoCount ==
  \E record \in AppendableRecords :
    /\ ~destroyed
    /\ Len(released) <= MaxRecords
    /\ records' = Append(records, record)
    /\ released' = Append(released, 0)
    /\ header' = [header EXCEPT !.nBytes = @ + size(record)]
    /\ op' = "appendHandle"
    /\ UNCHANGED <<handleVars, mappingVars, paintVars, destroyed, rec, streamVars>>

\* METAFILEDEVICECONTEXT::appendHandle( record )
appendHandle ==
  \E record \in AppendableRecords :
    /\ ~destroyed
    /\ Len(released) <= MaxRecords
    /\ records' = Append(records, record)
    /\ released' = Append(released, 0)
    /\ header' \in Stored([header EXCEPT !.nBytes = @ + size(record),
                                         !.nRecords = @ + 1])
    /\ op' = "appendHandle"
    /\ UNCHANGED <<handleVars, mappingVars, paintVars, destroyed, rec, streamVars>>

(***************************************************************************)
(* The device context: deleting the records.                               *)
(***************************************************************************)
\* The loop of deleteMetafile: delete *r for every record in the list.
DeleteListed ==
  [i \in DOMAIN released |-> IF i \in Listed THEN released[i] + 1 ELSE released[i]]

\* Mutant of deleteMetafile: the list is not cleared.
deleteMetafileKeepsList ==
  /\ ~destroyed
  /\ released' = DeleteListed
  /\ op' = "deleteMetafile"
  /\ UNCHANGED <<handleVars, header, records, mappingVars, paintVars, destroyed,
                 rec, streamVars>>

\* METAFILEDEVICECONTEXT::deleteMetafile().  `header` is not assigned: it
\* keeps pointing to the record that was first in the list.
deleteMetafile ==
  /\ ~destroyed
  /\ released' = DeleteListed
  /\ records' = <<>>
  /\ op' = "deleteMetafile"
  /\ UNCHANGED <<handleVars, header, mappingVars, paintVars, destroyed, rec,
                 streamVars>>

\* METAFILEDEVICECONTEXT::~METAFILEDEVICECONTEXT(): deleteMetafile() when
\* the list is not empty.
Destroy ==
  /\ ~destroyed
  /\ destroyed' = TRUE
  /\ IF Len(records) > 0
     THEN /\ released' = DeleteListed
          /\ records' = <<>>
          /\ op' = "destroy"
     ELSE /\ UNCHANGED <<released, records>>
          /\ op' = "destroy, the list being empty"
  /\ UNCHANGED <<handleVars, header, mappingVars, paintVars, rec, streamVars>>

(***************************************************************************)
(* The device context: bounds accumulation.                                *)
(***************************************************************************)
\* The mappings a caller sets up (window extent and origin, viewport extent
\* and origin).  The window extents are 1, 2 or not positive: the quotient
\* by the window width is then exact in single precision, as are the
\* products and sums of these small integers, and the float expression of
\* mergePoint equals the rational one computed here.  The last mapping
\* moves the drawing far from the origin: its device coordinates are still
\* below 2^24 and exact, the frame edges scaled from them are not.
Mappings ==
  {[window_ext |-> Sz(1, 1), window_org |-> Pt(0, 0),
    viewport_ext |-> Sz(1, 1), viewport_org |-> Pt(0, 0)],
   [window_ext |-> Sz(1, 1), window_org |-> Pt(0, 0),
    viewport_ext |-> Sz(1, 1), viewport_org |-> Pt(134211, -178947)],
   [window_ext |-> Sz(2, 2), window_org |-> Pt(0, 0),
    viewport_ext |-> Sz(100, 100), viewport_org |-> Pt(0, 0)],
   [window_ext |-> Sz(0, 2), window_org |-> Pt(1, -1),
    viewport_ext |-> Sz(-2, 3), viewport_org |-> Pt(5, -7)],
   [window_ext |-> Sz(2, -3), window_org |-> Pt(0, 0),
    viewport_ext |-> Sz(0, 4), viewport_org |-> Pt(0, 0)]}

\* The logical points painted.
LogicalCoords == {-1, 0, 1, 3}
LogicalPoints == {Pt(x, y) : x \in LogicalCoords, y \in LogicalCoords}

\* SetWindowExtEx, SetWindowOrgEx, SetViewportExtEx, SetViewportOrgEx: the
\* caller replaces the mapping.
SetMapping ==
  \E m \in Mappings :
    /\ window_ext' = m.window_ext
    /\ window_org' = m.window_org
    /\ viewport_ext' = m.viewport_ext
    /\ viewport_org' = m.viewport_org
    /\ <<window_ext', window_org', viewport_ext', viewport_org'>>
         # <<window_ext, window_org, viewport_ext, viewport_org>>
    /\ op' = "SetMapping"
    /\ UNCHANGED <<handleVars, header, records, paintVars, lifeVars, rec,
                   streamVars>>

\* Mutant of DeviceCoord: the quotient is taken in integers.
DeviceCoordIntDiv(p, org, ext, vext, vorg) ==
  LET width == IF ext <= 0 THEN 1 ELSE ext
  IN CDiv(p - org, width) * vext + vorg

\* One coordinate of mergePoint's device_point:
\*   (LONG)( (float)( p - org ) / width * vext + vorg )
\* where width is the window extent, or 1 when that is not positive.
DeviceCoord(p, org, ext, vext, vorg) ==
  LET width == IF ext <= 0 THEN 1 ELSE ext
  IN CDiv((p - org) * vext + vorg * width, width)

\* Single precision.  A float is sign * m * 2^e with a significand m of at
\* most 24 bits; every operation rounds its exact result to the nearest such
\* value, ties to the even significand.
Pow2(k) == 2 ^ k

\* m / 2^k rounded to the nearest integer, ties to even.
RoundShift(m, k) ==
  LET q == m \div Pow2(k)
      r == m % Pow2(k)
  IN IF k = 0 THEN m
     ELSE IF 2 * r > Pow2(k) \/ (2 * r = Pow2(k) /\ q % 2 = 1) THEN q + 1
     ELSE q

\* The float nearest to sign * m * 2^e, for 0 <= m < 2^31.
Single(sign, m, e) ==
  LET k == CHOOSE j \in 0 .. 7 :
             m < Pow2(24 + j) /\ (j = 0 \/ m >= Pow2(23 + j))
  IN [sign |-> sign, m |-> RoundShift(m, k), e |-> e + k]

\* n = OddPart(n) * 2^TwoPart(n), n > 0.
TwoPart(n) == CHOOSE t \in 0 .. 30 : n % Pow2(t) = 0 /\ n % Pow2(t + 1) # 0
OddPart(n) == n \div Pow2(TwoPart(n))

\* (float)n of a LONG n.
FloatOfLong(n) == IF n < 0 THEN Single(-1, 0 - n, 0) ELSE Single(1, n, 0)

\* f * n and f / d in single precision, for integers n > 0 and d > 0 (the
\* integer operand is converted to float exactly: the device sizes and the
\* factors here have fewer than 24 bits).
TimesInt(f, n) == Single(f.sign, f.m * OddPart(n), f.e + TwoPart(n))
OverInt(f, d) ==
  LET od == OddPart(d)
      s == CHOOSE j \in 0 .. 25 :
             (f.m * Pow2(j)) \div od >= Pow2(23)
               /\ (j = 0 \/ (f.m * Pow2(j - 1)) \div od < Pow2(23))
      q == (f.m * Pow2(s)) \div od
      r == (f.m * Pow2(s)) % od
  IN IF od = 1 \/ f.m = 0 THEN [f EXCEPT !.e = @ - TwoPart(d)]
     ELSE [sign |-> f.sign, m |-> IF 2 * r > od THEN q + 1 ELSE q,
           e |-> f.e - TwoPart(d) - s]

\* (LONG)floor( f ) and (LONG)ceil( f ).
FloorOf(f) ==
  IF f.e >= 0 THEN f.sign * f.m * Pow2(f.e)
  ELSE Floor(f.sign * f.m, Pow2(0 - f.e))
CeilOf(f) ==
  IF f.e >= 0 THEN f.sign * f.m * Pow2(f.e)
  ELSE Ceil(f.sign * f.m, Pow2(0 - f.e))

\* (float)edge * millimeters * 100 / device, evaluated left to right.
Scaled(edge, millimeters, device) ==
  OverInt(TimesInt(TimesInt(FloatOfLong(edge), millimeters), 100), device)

\* Mutant of FrameLow: the quotient is truncated toward zero.
FrameLowTruncated(edge, millimeters, device) ==
  LET f == Scaled(edge, millimeters, IF device <= 0 THEN 1 ELSE device)
  IN IF f.sign < 0 THEN CeilOf(f) ELSE FloorOf(f)

\* The frame edge of a bounds edge: floor or ceil of
\* (float)edge * millimeters * 100 / device, where device is the device
\* size, or 1 when that is not positive.
FrameLow(edge, millimeters, device) ==
  FloorOf(Scaled(edge, millimeters, IF device <= 0 THEN 1 ELSE device))
FrameHigh(edge, millimeters, device) ==
  CeilOf(Scaled(edge, millimeters, IF device <= 0 THEN 1 ELSE device))

\* Mutants of BoundsLow and BoundsHigh: no margin.
BoundsLowNoMargin(coord) == coord
BoundsHighNoMargin(coord) == coord

\* The bounds edge of a new extreme device coordinate: min - 10, max + 10.
BoundsLow(coord) == coord - 10
BoundsHigh(coord) == coord + 10

\* Mutant of mergePoint: the bounds and the frame follow the painted area
\* whether or not the frame was fixed.
mergePointNoFrameTest ==
  \E p \in LogicalPoints :
    LET dp == Pt(DeviceCoord(p.x, window_org.x, window_ext.cx,
                             viewport_ext.cx, viewport_org.x),
                 DeviceCoord(p.y, window_org.y, window_ext.cy,
                             viewport_ext.cy, viewport_org.y))
        lowX == dp.x < min_device_point.x
        highX == ~lowX /\ dp.x > max_device_point.x
        lowY == dp.y < min_device_point.y
        highY == ~lowY /\ dp.y > max_device_point.y
        mm == header.szlMillimeters
        dev == header.szlDevice
        b == header.rclBounds
        f == header.rclFrame
    IN /\ ~destroyed
       /\ Cardinality(merged \cup {dp}) <= MaxMerged
       /\ logical_point' = p
       /\ device_point' = dp
       /\ merged' = merged \cup {dp}
       /\ min_device_point' = Pt(IF lowX THEN dp.x ELSE min_device_point.x,
                                 IF lowY THEN dp.y ELSE min_device_point.y)
       /\ max_device_point' = Pt(IF highX THEN dp.x ELSE max_device_point.x,
                                 IF highY THEN dp.y ELSE max_device_point.y)
       /\ header' =
            [header EXCEPT
               !.rclBounds =
                  Rect(IF lowX THEN BoundsLow(dp.x) ELSE b.left,
                       IF lowY THEN BoundsLow(dp.y) ELSE b.top,
                       IF highX THEN BoundsHigh(dp.x) ELSE b.right,
                       IF highY THEN BoundsHigh(dp.y) ELSE b.bottom),
               !.rclFrame =
                  Rect(IF lowX
                       THEN FrameLow(BoundsLow(dp.x), mm.cx, dev.cx) ELSE f.left,
                       IF lowY
                       THEN FrameLow(BoundsLow(dp.y), mm.cy, dev.cy) ELSE f.top,
                       IF highX
                       THEN FrameHigh(BoundsHigh(dp.x), mm.cx, dev.cx) ELSE f.right,
                       IF highY
                       THEN FrameHigh(BoundsHigh(dp.y), mm.cy, dev.cy) ELSE f.bottom)]
       /\ op' = "mergePoint"
       /\ UNCHANGED <<handleVars, records, mappingVars, update_frame, lifeVars,
                      rec, streamVars>>

\* METAFILEDEVICECONTEXT::mergePoint( p )
mergePoint ==
  \E p \in LogicalPoints :
    LET dp == Pt(DeviceCoord(p.x, window_org.x, window_ext.cx,
                             viewport_ext.cx, viewport_org.x),
                 DeviceCoord(p.y, window_org.y, window_ext.cy,
                             viewport_ext.cy, viewport_org.y))
        lowX == dp.x < min_device_point.x
        highX == ~lowX /\ dp.x > max_device_point.x
        lowY == dp.y < min_device_point.y
        highY == ~lowY /\ dp.y > max_device_point.y
        mm == header.szlMillimeters
        dev == header.szlDevice
        b == header.rclBounds
        f == header.rclFrame
    IN /\ ~destroyed
       /\ Cardinality(merged \cup {dp}) <= MaxMerged
       /\ logical_point' = p
       /\ device_point' = dp
       /\ merged' = merged \cup {dp}
       /\ min_device_point' = Pt(IF lowX THEN dp.x ELSE min_device_point.x,
                                 IF lowY THEN dp.y ELSE min_device_point.y)
       /\ max_device_point' = Pt(IF highX THEN dp.x ELSE max_device_point.x,
                                 IF highY THEN dp.y ELSE max_device_point.y)
       /\ header' \in Stored(
            [header EXCEPT
               !.rclBounds =
                  Rect(IF lowX /\ update_frame THEN BoundsLow(dp.x) ELSE b.left,
                       IF lowY /\ update_frame THEN BoundsLow(dp.y) ELSE b.top,
                       IF highX /\ update_frame THEN BoundsHigh(dp.x) ELSE b.right,
                       IF highY /\ update_frame THEN BoundsHigh(dp.y) ELSE b.bottom),
               !.rclFrame =
                  Rect(IF lowX /\ update_frame
                       THEN FrameLow(BoundsLow(dp.x), mm.cx, dev.cx) ELSE f.left,
                       IF lowY /\ update_frame
                       THEN FrameLow(BoundsLow(dp.y), mm.cy, dev.cy) ELSE f.top,
                       IF highX /\ update_frame
                       THEN FrameHigh(BoundsHigh(dp.x), mm.cx, dev.cx) ELSE f.right,
                       IF highY /\ update_frame
                       THEN FrameHigh(BoundsHigh(dp.y), mm.cy, dev.cy) ELSE f.bottom)])
       /\ op' = "mergePoint"
       /\ UNCHANGED <<handleVars, records, mappingVars, update_frame, lifeVars,
                      rec, streamVars>>

(***************************************************************************)
(* Records: constructing and parsing them.                                 *)
(***************************************************************************)
\* Per-polygon counts of a poly-polygon: at most MaxPolys polygons of at
\* most MaxPolyCount points each.
CountSeqs ==
  UNION {[1 .. k -> 0 .. MaxPolyCount] : k \in 0 .. MaxPolys}

\* Per-polygon counts as a stream holds them: any DWORD, here the small
\* counts, 2^31 and 2^32 - 1.
StreamCounts ==
  {DW(n) : n \in 0 .. MaxPolyCount}
    \cup {[hi |-> 32768, lo |-> 0], [hi |-> 65535, lo |-> 65535]}
StreamCountSeqs ==
  UNION {[1 .. k -> StreamCounts] : k \in 0 .. MaxPolys}

\* The bytes a poly record of cnt points needs.
PolyNeeded(kind, cnt) == SizeofStruct(kind) - ElemSize(kind) + ElemSize(kind) * cnt

\* Values an uninitialized int may hold: 0, or something else.
IndeterminateInts == {0, 4}

ConstructFixed ==
  /\ rec = NoRec
  /\ \E kind \in FixedKinds : rec' = NewFixed(kind)
  /\ op' = "construct"
  /\ UNCHANGED <<ctx, streamVars>>

ConstructPoly ==
  /\ rec = NoRec
  /\ \E kind \in PolyKinds, n \in 0 .. MaxCount : rec' = NewPoly(kind, n)
  /\ op' = "construct"
  /\ UNCHANGED <<ctx, streamVars>>

ConstructPolyPolygon ==
  /\ rec = NoRec
  /\ \E kind \in PolyPolygonKinds, counts \in CountSeqs :
       rec' = NewPolyPolygon(kind, counts)
  /\ op' = "construct"
  /\ UNCHANGED <<ctx, streamVars>>

ConstructExtTextOut ==
  /\ rec = NoRec
  /\ \E kind \in TextKinds, nChars \in 0 .. MaxCount, dx \in BOOLEAN :
       rec' = NewExtTextOut(kind, nChars, dx)
  /\ op' = "construct"
  /\ UNCHANGED <<ctx, streamVars>>

ConstructHeader ==
  /\ rec = NoRec
  /\ \E description \in Descriptions : rec' = NewHeader(description)
  /\ op' = "construct"
  /\ UNCHANGED <<ctx, streamVars>>

ParseFixedRecord ==
  /\ rec = NoRec
  /\ \E kind \in FixedKinds :
       \E nSize \in 0 .. SizeofStruct(kind) + MaxSlack :
         rec' = ParseFixed(kind, nSize)
  /\ op' = "parse"
  /\ UNCHANGED <<ctx, streamVars>>

ParsePolyRecord ==
  /\ rec = NoRec
  /\ \E kind \in PolyKinds, cnt \in 0 .. MaxCount :
       \E nSize \in 0 .. PolyNeeded(kind, cnt) + MaxSlack :
         rec' = ParsePoly(kind, nSize, cnt)
  /\ op' = "parse"
  /\ UNCHANGED <<ctx, streamVars>>

ParsePolyPolygonRecord ==
  /\ rec = NoRec
  /\ \E kind \in PolyPolygonKinds, cnt \in 0 .. MaxCount, counts \in StreamCountSeqs :
       \E nSize \in 0 .. PolyNeeded(kind, cnt) + Width("DWORD") * (Len(counts) - 1)
                           + MaxSlack :
         rec' = ParsePolyPolygon(kind, nSize, cnt, counts)
  /\ op' = "parse"
  /\ UNCHANGED <<ctx, streamVars>>

ParseExtTextOutRecord ==
  /\ rec = NoRec
  /\ \E kind \in TextKinds, nChars \in 0 .. MaxCount, hasDx \in BOOLEAN :
       LET strBytes == CharSize(kind) * ROUND_TO_LONG(nChars)
       IN \E nSize \in 0 .. SizeofStruct(kind) + strBytes + Width("INT") * nChars
                              + MaxSlack :
            \E offString \in {0, SizeofStruct(kind), SizeofStruct(kind) + 4, nSize + 4} :
              \E indeterminate \in (IF offString = 0 THEN IndeterminateInts ELSE {0}) :
                rec' = ParseExtTextOut(kind, nSize, nChars, offString,
                                       IF hasDx THEN offString + strBytes ELSE 0,
                                       indeterminate)
  /\ op' = "parse"
  /\ UNCHANGED <<ctx, streamVars>>

\* ~METARECORD: the record is deleted (or, after a throw, never existed).
DeleteRecord ==
  /\ rec # NoRec
  /\ rec' = NoRec
  /\ op' = "delete"
  /\ UNCHANGED <<ctx, streamVars>>

(***************************************************************************)
(* The stream: primitives written and read back.                           *)
(***************************************************************************)
\* The byte values the primitives of this model are made of.
Bytes == {0, 1, 128, 255}
Memories(t) == [1..Width(t) -> Bytes]

\* ds << value, on a file that accepts `room` more bytes: the operator
\* throws when a transfer is short, and the file keeps what was moved.
WritePrimitive ==
  /\ rec = NoRec
  /\ sent = NoRec
  /\ \E t \in PrimitiveTypes :
       \E p \in Memories(t), room \in 0..Width(t) :
         LET done == RunCalls(Calls(t, swap_), room)
         IN  /\ fp_' = SubSeq(Put(t, p, swap_), 1, done.moved)
             /\ rec' = [kind |-> "primitive", type |-> t, p |-> p,
                        written |-> p, moved |-> done.moved,
                        error |-> IF done.threw THEN "error writing EMF stream"
                                  ELSE ""]
  /\ op' = "write"
  /\ UNCHANGED <<ctx, swap_, sent>>

\* ds >> value, on the file the last write left: the operator throws when a
\* transfer is short, and returns the value otherwise.
ReadPrimitive ==
  /\ op = "write"
  /\ rec # NoRec
  /\ rec.kind = "primitive"
  /\ LET done == RunCalls(Calls(rec.type, swap_), Len(fp_))
     IN  /\ fp_' = SubSeq(fp_, done.moved + 1, Len(fp_))
         /\ rec' = IF done.threw
                   THEN [rec EXCEPT !.p = <<>>, !.moved = done.moved,
                                    !.error = "Premature EOF on EMF stream"]
                   ELSE [rec EXCEPT !.p = Get(rec.type,
                                              SubSeq(fp_, 1, Width(rec.type)),
                                              swap_),
                                    !.moved = done.moved,
                                    !.error = ""]
  /\ op' = "read"
  /\ UNCHANGED <<ctx, swap_, sent>>

(***************************************************************************)
(* The stream: records written and read back.                              *)
(***************************************************************************)
\* Values of the arguments the constructors copy.
Seeds == {-300, 7}

\* Miter limits a caller sets: 0, 10, -3, 2.5, 0.5 and -1.5.
MiterLimits ==
  {FloatOfLong(0), FloatOfLong(10), FloatOfLong(-3),
   [sign |-> 1, m |-> 5, e |-> -1], [sign |-> 1, m |-> 1, e |-> -1],
   [sign |-> -1, m |-> 3, e |-> -1]}

\* (int)f: the fraction is discarded.
LongOfFloat(f) ==
  IF f.e >= 0 THEN f.sign * f.m * Pow2(f.e)
  ELSE f.sign * (f.m \div Pow2(0 - f.e))

\* EMRSETMITERLIMIT( limit ), with the members its serialize() writes:
\* emr and (int)eMiterLimit.
NewSetMiterLimit(limit, seed) ==
  LET r == WithMembers(NewFixed("EMRSETMITERLIMIT"), seed)
  IN [eMiterLimit |-> limit]
       @@ [r EXCEPT !.members = [@ EXCEPT ![3] = LongOfFloat(limit)]]

\* EMRSETMITERLIMIT( DATASTREAM& ): ds >> emr >> miter_limit, and
\* eMiterLimit = float( miter_limit ).  The member has no value when an
\* operator threw.
ParseSetMiterLimit(bytes, swap) ==
  CHOOSE parsed \in
    {[eMiterLimit |-> FloatOfLong(IF r.error = "" THEN r.members[3] ELSE 0)]
       @@ r : r \in {FromStream("EMRSETMITERLIMIT", bytes, swap, 0)}} : TRUE

\* The records the constructors yield, members and all.
ConstructedRecords ==
  {WithMembers(NewFixed(kind), seed) :
     kind \in FixedKinds \ {"EMRSETMITERLIMIT"}, seed \in Seeds}
    \cup {NewSetMiterLimit(limit, seed) : limit \in MiterLimits, seed \in Seeds}
    \cup {WithMembers(NewPoly(kind, n), seed) :
            kind \in PolyKinds, n \in 0 .. MaxCount, seed \in Seeds}
    \cup {WithMembers(NewPolyPolygon(kind, counts), seed) :
            kind \in PolyPolygonKinds, counts \in CountSeqs, seed \in Seeds}
    \cup {WithMembers(NewExtTextOut(kind, nChars, dx), seed) :
            kind \in TextKinds, nChars \in 0 .. MaxCount, dx \in BOOLEAN,
            seed \in Seeds}
    \cup {HeaderWithMembers(description) : description \in Descriptions}

\* A constructor is called.
ConstructMembers ==
  /\ rec = NoRec
  /\ sent = NoRec
  /\ \E r \in ConstructedRecords : rec' = r
  /\ op' = "construct"
  /\ UNCHANGED <<ctx, streamVars>>

\* The records that follow in a file: three EMRARC records.
Following(swap) ==
  LET arc == serialize(WithMembers(NewFixed("EMRARC"), 7), swap)
  IN arc \o arc \o arc

\* rec->serialize( ds ) on an empty file; the file ends there, or the
\* records that follow are written after it.
SerializeRecord ==
  /\ op = "construct"
  /\ rec # NoRec
  /\ rec.members # <<>>
  /\ \E more \in BOOLEAN :
       fp_' = serialize(rec, swap_) \o (IF more THEN Following(swap_) ELSE <<>>)
  /\ sent' = rec
  /\ op' = "serialize"
  /\ UNCHANGED <<ctx, rec, swap_>>

\* Header formats: the description starts where the members of the format end.
HeaderFormats ==
  {SumWidths(SubSeq(Fields("ENHMETAHEADER"), 1, 15)),
   SumWidths(SubSeq(Fields("ENHMETAHEADER"), 1, 18)),
   SizeofStruct("ENHMETAHEADER")}

\* A file of another writer: a header of one of the formats, with a
\* description of n code units, and the records that follow.
SupplyHeader ==
  /\ rec = NoRec
  /\ sent = NoRec
  /\ \E offDescription \in HeaderFormats,
        description \in Descriptions \ {NoDescription} :
       LET h == HeaderWithMembers(NoDescription)
           n == Len(description)
           nSize == offDescription + Width("WORD") * n
           types == SubSeq(Flatten(Fields("ENHMETAHEADER")), 1,
                           23 + (offDescription - 88) \div 4)
                      \o Repeat("WORD", n)
           values == [i \in 1 .. Len(types) |->
                        IF i = 2 \/ i = 13 THEN nSize
                        ELSE IF i = 17 THEN n
                        ELSE IF i = 18 THEN offDescription
                        ELSE IF i \in 24 .. 28 /\ i <= Len(types) - n THEN i
                        ELSE IF i > Len(types) - n
                          THEN description[i - (Len(types) - n)]
                        ELSE h.members[i]]
       IN /\ fp_' = WriteValues(types, values, swap_) \o Following(swap_)
          /\ sent' = [BlankRec("ENHMETAHEADER") EXCEPT
                        !.origin = "file", !.nSize = nSize,
                        !.nDescription = n, !.offDescription = offDescription,
                        !.description_size = n, !.members = values]
  /\ op' = "supply"
  /\ UNCHANGED <<ctx, rec, swap_>>

\* The file is cut short somewhere inside its first record.
Truncate ==
  /\ op \in {"serialize", "supply"}
  /\ \E n \in 0 .. sent.nSize - 1 :
       /\ n < Len(fp_)
       /\ fp_' = SubSeq(fp_, 1, n)
  /\ op' = "truncate"
  /\ UNCHANGED <<ctx, rec, swap_, sent>>

\* The record of the file is read: the stream constructor of its kind, or
\* unserialize on a newly constructed header.
ParseStream ==
  /\ op \in {"serialize", "supply", "truncate"}
  /\ \E indeterminate \in IndeterminateInts :
       rec' = IF sent.kind = "ENHMETAHEADER"
              THEN unserialize(HeaderWithMembers(NoDescription), fp_, swap_)
              ELSE IF sent.kind = "EMRSETMITERLIMIT"
              THEN ParseSetMiterLimit(fp_, swap_)
              ELSE FromStream(sent.kind, fp_, swap_, indeterminate)
  /\ fp_' = SubSeq(fp_, rec'.consumed + 1, Len(fp_))
  /\ op' = "parse"
  /\ UNCHANGED <<ctx, swap_, sent>>

\* The stream is closed and the value dropped.
CloseStream ==
  /\ rec # NoRec
  /\ rec' = NoRec
  /\ fp_' = <<>>
  /\ sent' = NoRec
  /\ op' = "close"
  /\ UNCHANGED <<ctx, swap_>>

(***************************************************************************)
(* Specifications.                                                         *)
(***************************************************************************)
\* Handle allocation on one context.
NextHandles == nextHandle \/ clearHandle
SpecHandles == Init /\ [][NextHandles]_vars

\* Appending records to one context.
NextAppend == appendRecord \/ appendHandle
SpecAppend == Init /\ [][NextAppend]_vars

\* Bounds accumulation on one context.
InitMerge ==
  /\ \E hasSize \in BOOLEAN :
       Open(hasSize, IF hasSize THEN Rect(0, 0, 1000, 1000) ELSE NoRect,
            NoDescription)
  /\ swap_ = FALSE
NextMerge == SetMapping \/ mergePoint
SpecMerge == InitMerge /\ [][NextMerge]_vars

\* The life of one context: records and handles enter it, the list is
\* deleted, the context is destroyed.
InitLife == Open(FALSE, NoRect, NoDescription) /\ swap_ = FALSE
NextLife ==
  \/ appendRecord
  \/ appendHandle
  \/ nextHandle
  \/ deleteMetafile
  \/ Destroy
SpecLife == InitLife /\ [][NextLife]_vars

\* The record algebra: constructors, stream constructors, serialize, size.
InitRecord == Open(FALSE, NoRect, NoDescription) /\ swap_ = FALSE
NextRecord ==
  \/ ConstructFixed
  \/ ConstructPoly
  \/ ConstructPolyPolygon
  \/ ConstructExtTextOut
  \/ ConstructHeader
  \/ ParseFixedRecord
  \/ ParsePolyRecord
  \/ ParsePolyPolygonRecord
  \/ ParseExtTextOutRecord
  \/ DeleteRecord
SpecRecord == InitRecord /\ [][NextRecord]_vars

\* The stream: a host of either byte order writes and reads back.
InitStream == Open(FALSE, NoRect, NoDescription) /\ swap_ \in BOOLEAN
NextStream ==
  \/ WritePrimitive
  \/ ReadPrimitive
  \/ ConstructMembers
  \/ SerializeRecord
  \/ SupplyHeader
  \/ Truncate
  \/ ParseStream
  \/ CloseStream
SpecStream == InitStream /\ [][NextStream]_vars

\* Every operation of the context.
Next == NextHandles \/ NextAppend \/ NextMerge
Spec == Init /\ [][Next]_vars

(***************************************************************************)
(* Properties.                                                             *)
(***************************************************************************)
RECURSIVE SumSizes(_)
\* The sum of size() over a list of records.
SumSizes(rs) == IF rs = <<>> THEN 0 ELSE size(Head(rs)) + SumSizes(Tail(rs))

\* C1: after any sequence of appendRecord and appendHandle calls,
\* header.nRecords is the number of records in the list (header included)
\* and header.nBytes is the sum of size() over the list.
C1_CountersMatchRecords ==
  /\ header.nRecords = Len(records)
  /\ header.nBytes = SumSizes(records)

\* Both append operations have run and a variable-length record is listed.
C1_Witness ==
  /\ Len(records) >= 4
  /\ op = "appendHandle"
  /\ \E i \in 2 .. Len(records) - 1 : records[i].kind = "EMRPOLYLINE"
  /\ \E i \in 2 .. Len(records) : records[i].kind = "EMREXTTEXTOUTA"
  /\ header.nBytes > header.nSize

\* The indices from 1 on whose bit is unset.
FreeHandles(h) == {i \in 1 .. Len(h) - 1 : ~h[i + 1]}

\* C2: nextHandle returns the smallest index i >= 1 whose bit is unset and
\* sets it; only when every index from 1 on is set does it extend the table
\* and return the new last index.
C2_FirstFit ==
  [][op' = "nextHandle" =>
       IF FreeHandles(handles) # {}
       THEN /\ ret' \in FreeHandles(handles)
            /\ \A i \in FreeHandles(handles) : ret' <= i
            /\ handles' = [handles EXCEPT ![ret' + 1] = TRUE]
       ELSE /\ handles' = Append(handles, TRUE)
            /\ ret' = Len(handles)]_vars

\* Handles 1..5 were allocated, 3 was cleared, and the next allocation
\* returned 3 and not 6.
C2_Witness ==
  /\ op = "nextHandle"
  /\ ret = 3
  /\ stale = 3
  /\ Len(handles) = 6
  /\ \A i \in 1 .. 6 : handles[i]

\* C3: nextHandle never returns a handle that is outstanding: no handle is
\* held by two allocations at once.
C3_NoDuplicateHandles == \A h \in HandleRange : held[h] <= 1

\* A cleared handle was allocated again while its neighbours were outstanding.
C3_Witness ==
  /\ op = "nextHandle"
  /\ ret = 2
  /\ stale = 2
  /\ held[1] = 1 /\ held[2] = 1 /\ held[3] = 1

\* C4: nextHandle never returns 0, also after clearHandle(0).
C4_ZeroNeverAssigned == (op = "nextHandle" => ret # 0) /\ held[0] = 0

\* nextHandle ran after clearHandle(0) had unset the bit of slot 0.
C4_Witness == op = "nextHandle" /\ ~handles[1] /\ ret >= 1

\* C5: once handle h has been freed, the old h never denotes an allocation
\* made afterwards.
C5_StaleNeverAliases == stale # 0 => held[stale] = 0

\* C6: header.nHandles equals the number of slots of the handle table, slot
\* 0 included, also before the first allocation.
C6_HandleCountIsTableSize == header.nHandles = Len(handles)

\* C7: when the frame is not fixed, every merged device point lies within
\* the bounds with the 10-unit margin on each side.
C7_BoundsCoverMergedPoints ==
  update_frame =>
    \A d \in merged :
      /\ header.rclBounds.left <= d.x - 10
      /\ d.x + 10 <= header.rclBounds.right
      /\ header.rclBounds.top <= d.y - 10
      /\ d.y + 10 <= header.rclBounds.bottom

\* Two points were merged and moved the initial bounds on both sides.
C7_Witness ==
  /\ update_frame
  /\ op = "mergePoint"
  /\ Cardinality(merged) = 2
  /\ header.rclBounds.left < -10
  /\ header.rclBounds.bottom > 10

\* n / d truncated toward zero, d # 0.
TruncQuot(n, d) == IF d > 0 THEN CDiv(n, d) ELSE CDiv(-n, -d)

\* (logical - window_origin) / window_extent * viewport_extent
\* + viewport_origin, truncated, with the window extent taken as it is.
UnguardedCoord(p, org, ext, vext, vorg) ==
  TruncQuot((p - org) * vext + vorg * ext, ext)

\* The mapping and the merges of the example: window extent (2,2), viewport
\* extent (100,100), origins (0,0).
ExampleMapping ==
  /\ window_ext = Sz(2, 2) /\ viewport_ext = Sz(100, 100)
  /\ window_org = Pt(0, 0) /\ viewport_org = Pt(0, 0)

\* In the example (1,1) maps to (50,50), (-1,-1) maps to (-50,-50) and,
\* these being the only merges, left and top of the auto bounds are -60.
ExampleHolds ==
  (op = "mergePoint" /\ ExampleMapping) =>
    /\ logical_point = Pt(1, 1) => device_point = Pt(50, 50)
    /\ logical_point = Pt(-1, -1) =>
         /\ device_point = Pt(-50, -50)
         /\ (update_frame /\ merged \subseteq {Pt(50, 50), Pt(-50, -50)}) =>
              header.rclBounds.left = -60 /\ header.rclBounds.top = -60

GuardedExtent(ext) == IF ext <= 0 THEN 1 ELSE ext

C10_ParsedSizeIsSerialized ==
  (rec # NoRec /\ rec.origin = "parsed" /\ rec.error = "") =>
    /\ size(rec) = SerializedBytes(rec)
    /\ size(rec) % 4 = 0

\* The exact sum of DWORD counts, as the number hi * 65536 + lo with lo below
\* 65536 and hi unbounded.
CountsTotal(counts) ==
  LET his == SumSeq([i \in DOMAIN counts |-> counts[i].hi])
      los == SumSeq([i \in DOMAIN counts |-> counts[i].lo])
  IN [hi |-> his + los \div 65536, lo |-> los % 65536]

\* The counts sum to more than cnt points (cnt below 65536); the sum does
\* not fit a DWORD.
CountsExceed(counts, cnt) ==
  CountsTotal(counts).hi > 0 \/ CountsTotal(counts).lo > cnt
CountsWrap(counts) == CountsTotal(counts).hi >= 65536

\* C12: a poly-polygon record whose per-polygon counts sum to more than its
\* point count, or wrap 32 bits, is never accepted, and a rejected record
\* has had no point data read: at most the fixed part and the counts.
C12_ExcessCountsRejected ==
  (rec # NoRec /\ rec.origin = "parsed" /\ rec.kind \in PolyPolygonKinds) =>
    /\ rec.error = "" => ~CountsExceed(rec.lcounts, rec.cnt)
    /\ rec.error # "" =>
         rec.consumed <= SumWidths(Fields(rec.kind)) + Width("DWORD") * rec.nPolys

\* Two counts whose sum wraps to a value within the point count were read
\* and the record was rejected for the overflow.
C12_Witness ==
  /\ rec # NoRec /\ rec.origin = "parsed" /\ rec.kind = "EMRPOLYPOLYGON16"
  /\ rec.error = "Unsigned overflow"
  /\ CountsWrap(rec.lcounts)
  /\ ~LessDW(DW(rec.cnt), CountsSum(rec.lcounts, 1, DW(0)))

\* C16: a text record with nChars > 0 and offString = 0 is rejected with the
\* invalid-text-specification error before any string or dx data is read.
C16_CharsWithoutOffsetRejected ==
  (/\ rec # NoRec /\ rec.origin = "parsed" /\ rec.kind \in TextKinds
   /\ rec.cnt > 0 /\ rec.offString = 0) =>
    /\ rec.error = "Invalid text specification"
    /\ rec.consumed = SumWidths(Fields(rec.kind))

\* A wide text record of several characters, a dx array and no string
\* offset was parsed and rejected.
C16_Witness ==
  /\ rec # NoRec /\ rec.origin = "parsed" /\ rec.kind = "EMREXTTEXTOUTW"
  /\ rec.cnt > 1 /\ rec.offString = 0 /\ rec.offDx # 0
  /\ rec.error = "Invalid text specification"

\* C17: an accepted text record has offString within nSize, its padded
\* string and its dx array end within nSize, and at most nSize bytes were
\* consumed.
C17_TextWithinRecord ==
  (/\ rec # NoRec /\ rec.origin = "parsed" /\ rec.kind \in TextKinds
   /\ rec.error = "") =>
    /\ rec.offString <= rec.nSize
    /\ rec.offString # 0 =>
         rec.offString + CharSize(rec.kind) * ROUND_TO_LONG(rec.cnt) <= rec.nSize
    /\ rec.offDx # 0 => rec.offDx + Width("INT") * rec.cnt <= rec.nSize
    /\ rec.consumed <= rec.nSize

\* C18: appendHandle increments header.nHandles by one (besides pushing the
\* record, adding its size to nBytes and one to nRecords); appendRecord
\* leaves header.nHandles unchanged.
C18_AppendHandleCountsHandle ==
  [][/\ op' = "appendHandle" =>
          /\ header'.nHandles = header.nHandles + 1
          /\ Len(records') = Len(records) + 1
          /\ header'.nBytes = header.nBytes + size(records'[Len(records')])
          /\ header'.nRecords = header.nRecords + 1
     /\ op' = "appendRecord" => header'.nHandles = header.nHandles]_vars

\* The bytes of a poly record before its arrays.
PolyFixedPart(kind) ==
  SizeofStruct(kind) - ElemSize(kind)
    - (IF kind \in PolyPolygonKinds THEN Width("DWORD") ELSE 0)

\* C19: a poly-family stream constructor accepts a record only if fixed part
\* + count * element size (+ 4 * nPolys) <= nSize.
C19_PolyCountsWithinSize ==
  (/\ rec # NoRec /\ rec.origin = "parsed"
   /\ rec.kind \in PolyKinds \cup PolyPolygonKinds /\ rec.error = "") =>
    PolyFixedPart(rec.kind) + ElemSize(rec.kind) * rec.cnt
      + Width("DWORD") * rec.nPolys <= rec.nSize

RECURSIVE Reversed(_)
\* A sequence back to front.
Reversed(s) == IF s = <<>> THEN <<>> ELSE Reversed(Tail(s)) \o <<Head(s)>>

\* C15: for every 16-bit and 32-bit primitive the swapping codec writes the
\* byte-reversed sequence of what the non-swapping codec writes for the same
\* value in memory, a single byte is written the same in both modes, and in
\* each mode the value read back is the value written.
C15_SwapReversesBytes ==
  (rec # NoRec /\ rec.kind = "primitive" /\ rec.error = "") =>
    /\ (op = "write" /\ swap_) =>
         fp_ = Reversed(Put(rec.type, rec.written, FALSE))
    /\ (op = "write" /\ rec.type = "BYTE") =>
         /\ fp_ = Put(rec.type, rec.written, TRUE)
         /\ fp_ = Put(rec.type, rec.written, FALSE)
    /\ op = "read" => rec.p = rec.written
C15_Witness ==
  /\ rec # NoRec /\ rec.kind = "primitive" /\ rec.error = ""
  /\ op = "read" /\ swap_
  /\ rec.type = "DWORD"
  /\ rec.p = <<0, 1, 128, 255>>

\* The file the record was read from held fewer bytes than the record has.
FileCutShort == op = "parse" /\ rec.consumed + Len(fp_) < sent.nSize
\* The file held the whole record.
FileWhole == op = "parse" /\ rec.consumed + Len(fp_) >= sent.nSize

\* The kinds of C11: the fixed-size kinds whose members are integers, the
\* poly and poly-polygon kinds, the text kinds.
RoundTripKinds ==
  (FixedKinds \ {"EMRMODIFYWORLDTRANSFORM", "EMRSETWORLDTRANSFORM",
                 "EMRSETMITERLIMIT"})
    \cup PolyKinds \cup PolyPolygonKinds \cup TextKinds

C20_HeaderRoundTrip ==
  (FileWhole /\ sent.kind = "ENHMETAHEADER" /\ sent.origin = "constructed") =>
    /\ rec.error = ""
    /\ rec.members = sent.members
    /\ rec.description_size = sent.description_size
    /\ rec.consumed = sent.nSize

\* C13: a header whose offDescription is below the offset of szlMicrometers
\* is read without error, szlMicrometers is not asked of the stream, and the
\* header read has szlMicrometers.cx = szlMicrometers.cy = 0.
C13_AbsentMicrometersAreZero ==
  (FileWhole /\ sent.kind = "ENHMETAHEADER" /\ sent.origin = "file"
     /\ sent.offDescription
          < SumWidths(SubSeq(Fields("ENHMETAHEADER"), 1, 18))) =>
    /\ rec.error = ""
    /\ rec.consumed = sent.nSize
    /\ rec.members[27] = 0
    /\ rec.members[28] = 0

\* C21: in every merge both the window extent and the viewport extent of
\* each axis count as 1 when they are zero or negative.
C21_AllExtentsGuarded ==
  op = "mergePoint" =>
    /\ device_point.x = UnguardedCoord(logical_point.x, window_org.x,
                          GuardedExtent(window_ext.cx),
                          GuardedExtent(viewport_ext.cx), viewport_org.x)
    /\ device_point.y = UnguardedCoord(logical_point.y, window_org.y,
                          GuardedExtent(window_ext.cy),
                          GuardedExtent(viewport_ext.cy), viewport_org.y)

\* The messages of the rejections a stream constructor or unserialize makes
\* after examining what it read (a stream that ends early is not among them).
MalformedMessages ==
  {"Invalid record size", "Unsigned overflow", "Too few points",
   "Invalid text specification",
   "record size inconsistent with description size"}

\* C22: a parsed record rejected as malformed was rejected before its stream
\* constructor allocated any array: poly, poly-polygon and text records.
C22_RejectedBeforeAllocation ==
  (rec # NoRec /\ rec.kind # "primitive" /\ rec.origin = "parsed"
     /\ rec.error \in MalformedMessages) =>
    rec.allocated = <<>>

RECURSIVE GCD(_, _)
GCD(a, b) == IF b = 0 THEN a ELSE GCD(b, a % b)

\* floor and ceil of edge * millimeters * 100 / device in exact arithmetic
\* (the ratio millimeters * 100 / device in lowest terms).
ExactLow(edge, millimeters, device) ==
  LET g == GCD(millimeters * 100, device)
  IN Floor(edge * ((millimeters * 100) \div g), device \div g)
ExactHigh(edge, millimeters, device) ==
  LET g == GCD(millimeters * 100, device)
  IN Ceil(edge * ((millimeters * 100) \div g), device \div g)

\* C24: when the frame is not fixed, each edge of the frame is the same edge
\* of the bounds times millimeters * 100 / device size, floored for left and
\* top, ceiled for right and bottom.
C24_FrameIsScaledBounds ==
  update_frame =>
    /\ header.rclFrame.left =
         ExactLow(header.rclBounds.left, header.szlMillimeters.cx,
                  header.szlDevice.cx)
    /\ header.rclFrame.top =
         ExactLow(header.rclBounds.top, header.szlMillimeters.cy,
                  header.szlDevice.cy)
    /\ header.rclFrame.right =
         ExactHigh(header.rclBounds.right, header.szlMillimeters.cx,
                   header.szlDevice.cx)
    /\ header.rclFrame.bottom =
         ExactHigh(header.rclBounds.bottom, header.szlMillimeters.cy,
                   header.szlDevice.cy)

\* C23: in a context whose frame was fixed at open, no step changes
\* header.rclBounds or header.rclFrame.
C23_FixedFrameUntouched ==
  [][~update_frame =>
       /\ header'.rclBounds = header.rclBounds
       /\ header'.rclFrame = header.rclFrame]_vars

\* Points were merged into a context with a fixed frame and moved both
\* extremes of the painted area.
C23_Witness ==
  /\ ~update_frame
  /\ op = "mergePoint"
  /\ min_device_point.x < 0
  /\ max_device_point.y > 0
  /\ header.rclFrame = Rect(0, 0, 1000, 1000)

\* The code units of d up to and including its third NUL.
ThroughThirdNul(d) ==
  CHOOSE n \in 1 .. Len(d) :
    d[n] = 0 /\ Cardinality({i \in 1 .. n : d[i] = 0}) = 3

\* The header constructed from description d has the members r holds.
HeaderOf(r, d) ==
  LET fixed == SizeofStruct("ENHMETAHEADER")
      n == ThroughThirdNul(d)
      stored == SubSeq(r.members, 29, Len(r.members))
  IN IF d = NoDescription
     THEN /\ r.members[2] = fixed /\ r.members[13] = fixed
          /\ r.members[17] = 0 /\ r.members[18] = 0
          /\ stored = <<>>
     ELSE /\ r.members[17] = n
          /\ r.members[18] = fixed
          /\ r.members[2] = fixed + ROUND_TO_LONG(2 * n)
          /\ r.members[13] = r.members[2]
          /\ 2 * Len(stored) = ROUND_TO_LONG(2 * n)
          /\ \A j \in 1 .. Len(stored) :
               stored[j] = IF j <= n THEN d[j] ELSE 0

\* C25: a constructed header has, for the description it was constructed
\* from, nDescription = the code units through the third NUL, offDescription
\* = the fixed header size, nSize = nBytes = fixed size + round_up_4(2 *
\* nDescription) and the description stored zero-padded to that length;
\* without a description nSize = nBytes = the fixed size and nDescription =
\* offDescription = 0.  size() is the nSize member.
C25_HeaderDescriptionSizes ==
  (rec # NoRec /\ rec.kind = "ENHMETAHEADER" /\ rec.origin = "constructed") =>
    /\ rec.nSize = rec.members[2]
    /\ rec.nDescription = rec.members[17]
    /\ \E d \in Descriptions :
         /\ HeaderOf(rec, d)
         /\ \A other \in Descriptions : HeaderOf(rec, other) => other = d

\* A header was constructed from a description of five code units, stored
\* padded to six.
C25_Witness ==
  /\ rec # NoRec /\ rec.kind = "ENHMETAHEADER" /\ rec.origin = "constructed"
  /\ rec.members[17] = 5
  /\ Len(rec.members) = 28 + 6

\* f and g are the same number.
SameFloat(f, g) ==
  LET e == IF f.e < g.e THEN f.e ELSE g.e
  IN f.sign * f.m * Pow2(f.e - e) = g.sign * g.m * Pow2(g.e - e)

\* C26: the set-miter-limit record read from the bytes serialize() wrote
\* for a constructed one has the miter limit it was constructed with,
\* whether that is a whole number or not.
C26_MiterLimitRoundTrip ==
  (FileWhole /\ sent.kind = "EMRSETMITERLIMIT") =>
    /\ rec.error = ""
    /\ SameFloat(rec.eMiterLimit, sent.eMiterLimit)

\* C27: no record the context held is deleted twice, the records deleted are
\* exactly those no longer in the list, the list is empty after
\* deleteMetafile, and once the context is destroyed every record it ever
\* held, the header included, has been deleted exactly once.
C27_ReleasedExactlyOnce ==
  /\ \A i \in DOMAIN released : released[i] <= 1
  /\ \A i \in DOMAIN released : (released[i] = 0) = (i \in Listed)
  /\ op = "deleteMetafile" => records = <<>>
  /\ destroyed => \A i \in DOMAIN released : released[i] = 1

\* A context that held the header and two more records was destroyed after
\* deleteMetafile had emptied its list.
C27_Witness ==
  /\ destroyed
  /\ op = "destroy, the list being empty"
  /\ Len(released) >= 3
  /\ \A i \in DOMAIN released : released[i] = 1

\* C28: as long as the context exists, `header` points to a record that was
\* not deleted and that is the first of the list.
C28_HeaderLiveAndFirst ==
  ~destroyed =>
    /\ HeaderLive
    /\ records # <<>>
    /\ Len(released) - Len(records) + 1 = 1

\* The bounds are the painted extremes with the margin of 10 on each side.
BoundsAreExtremes ==
  /\ header.rclBounds.left = min_device_point.x - 10
  /\ header.rclBounds.top = min_device_point.y - 10
  /\ header.rclBounds.right = max_device_point.x + 10
  /\ header.rclBounds.bottom = max_device_point.y + 10

\* Rectangle a contains rectangle b.
Contains(a, b) ==
  /\ a.left <= b.left /\ a.top <= b.top
  /\ a.right >= b.right /\ a.bottom >= b.bottom

\* C29: always min_device_point <= max_device_point on each axis and, when
\* the frame is not fixed, rclBounds is the extremes with the margin of 10
\* and contains the initial box (-10,-10)-(10,10); no step increases
\* min_device_point, decreases max_device_point or shrinks such bounds.
C29_ExtremesAndBounds ==
  /\ [](/\ min_device_point.x <= max_device_point.x
        /\ min_device_point.y <= max_device_point.y
        /\ update_frame =>
             /\ BoundsAreExtremes
             /\ Contains(header.rclBounds, Rect(-10, -10, 10, 10)))
  /\ [][/\ min_device_point'.x <= min_device_point.x
        /\ min_device_point'.y <= min_device_point.y
        /\ max_device_point'.x >= max_device_point.x
        /\ max_device_point'.y >= max_device_point.y
        /\ update_frame => Contains(header'.rclBounds, header.rclBounds)]_vars

\* Merges moved both extremes on both axes of a context without a fixed
\* frame.
C29_Witness ==
  /\ update_frame
  /\ op = "mergePoint"
  /\ min_device_point.x < 0 /\ min_device_point.y < 0
  /\ max_device_point.x > 0 /\ max_device_point.y > 0
  /\ BoundsAreExtremes

\* The bytes serialize() writes for r before the operand at place i of its
\* layout.
WrittenBefore(r, i) == SumWidths(SubSeq(Layout(r), 1, i - 1))

\* C30: in a constructed text record emrtext.offString is where serialize()
\* writes the string, right after the fixed part; emrtext.offDx is 0 exactly
\* when there is no dx array and otherwise where serialize() writes it,
\* right after the padded string; and offString + the padded string's bytes
\* + 4 * nChars for the dx array is nSize, the bytes serialize() writes.
C30_TextOffsetsLocatePayload ==
  (rec # NoRec /\ rec.kind \in TextKinds /\ rec.origin = "constructed") =>
    LET fixed == Len(Flatten(Fields(rec.kind)))
        padded == CharSize(rec.kind) * ROUND_TO_LONG(rec.members[12])
    IN /\ rec.members[13] = WrittenBefore(rec, fixed + 1)
       /\ rec.members[13] = SumWidths(Fields(rec.kind))
       /\ (rec.members[19] = 0) = ~rec.dx
       /\ rec.dx =>
            /\ rec.members[19] = WrittenBefore(rec, fixed + rec.string_size + 1)
            /\ rec.members[19] = rec.members[13] + padded
       /\ rec.members[13] + padded
            + (IF rec.dx THEN Width("INT") * rec.members[12] ELSE 0)
            = rec.members[2]
       /\ rec.members[2] = Len(serialize(rec, swap_))

\* A wide text record of three characters (padded to four) with a dx array
\* was constructed.
C30_Witness ==
  /\ rec # NoRec /\ rec.kind = "EMREXTTEXTOUTW" /\ rec.origin = "constructed"
  /\ rec.members # <<>>
  /\ rec.members[12] = 3 /\ rec.string_size = 4 /\ rec.dx
  /\ rec.members[19] = rec.members[13] + 8
====
